---- MODULE Spec2Model ----
(***************************************************************************)
(* A model of audiotools/flac.py: the FLAC metadata block codec, the       *)
(* FlacMetaData container, FlacAudio.update_metadata and the RIFF/AIFF     *)
(* foreign-chunk bridge.                                                   *)
(***************************************************************************)
EXTENDS Integers, Sequences, FiniteSets, Bags, TLC

VARIABLES
    pc,               \* position of the modelled caller
    block_list,       \* FlacMetaData.block_list of the container under test
    cleaned_blocks,   \* block list of the container returned by clean()
    fixes_performed,  \* fix list returned by clean()
    last_op,          \* the container operation applied last, with its arguments
    stream,           \* bytes written by FlacMetaData.build
    parsed,           \* result of FlacMetaData.parse on stream
    file,             \* bytes stored at the path of the file operated on
    call              \* the file operation applied last: its inputs and its outcome

vars == <<pc, block_list, cleaned_blocks, fixes_performed, last_op, stream, parsed,
          file, call>>

(***************************************************************************)
(* Byte strings.  A byte string is kept in run-length form: a sequence of  *)
(* <<value, count>> runs with count > 0 and adjacent runs of different     *)
(* value, so that equal byte strings are equal values and a block of 2^24  *)
(* zero bytes is one run.                                                  *)
(***************************************************************************)
BRun(v, n) == IF n <= 0 THEN <<>> ELSE << <<v, n>> >>

BCat(a, b) ==
    IF a = <<>> THEN b
    ELSE IF b = <<>> THEN a
    ELSE IF a[Len(a)][1] = b[1][1]
         THEN SubSeq(a, 1, Len(a) - 1)
              \o << <<b[1][1], a[Len(a)][2] + b[1][2]>> >> \o Tail(b)
         ELSE a \o b

\* the length: the runs' counts added up, as the cardinality of the bag
\* that has each run's count of copies of the run's position
BLen(a) == IF a = <<>> THEN 0 ELSE BagCardinality([i \in DOMAIN a |-> a[i][2]])

\* the number of leading runs that lie within the first n bytes
BWhole(a, n) ==
    Cardinality({j \in 1..(IF n < Len(a) THEN n ELSE Len(a)) : BLen(SubSeq(a, 1, j)) <= n})

\* the first n bytes: the whole runs among them and a part of the next
BTake(a, n) ==
    IF n <= 0 \/ a = <<>> THEN <<>>
    ELSE LET take(k) ==
                 IF k = Len(a) \/ BLen(SubSeq(a, 1, k)) = n THEN SubSeq(a, 1, k)
                 ELSE Append(SubSeq(a, 1, k), <<a[k + 1][1], n - BLen(SubSeq(a, 1, k))>>)
         IN  take(BWhole(a, n))

\* the bytes after the first n
RECURSIVE BDrop(_, _)
BDrop(a, n) ==
    IF n <= 0 \/ a = <<>> THEN a
    ELSE IF a[1][2] <= n THEN BDrop(Tail(a), n - a[1][2])
    ELSE << <<a[1][1], a[1][2] - n>> >> \o Tail(a)

\* reader.skip_bytes(n) and file.seek(n): the bytes after the first n, found
\* from the number of whole runs among them, for stretches of many runs
BSkip(a, n) ==
    IF n <= 0 \/ a = <<>> THEN a
    ELSE LET skip(k, head_len) ==
                 IF k = Len(a) THEN <<>>
                 ELSE IF head_len = n THEN SubSeq(a, k + 1, Len(a))
                 ELSE << <<a[k + 1][1], a[k + 1][2] - (n - head_len)>> >>
                      \o SubSeq(a, k + 2, Len(a))
             whole(k) == skip(k, BLen(SubSeq(a, 1, k)))
         IN  whole(BWhole(a, n))

\* the byte string of a plain sequence of byte values
RECURSIVE B(_)
B(s) ==
    IF s = <<>> THEN <<>>
    ELSE IF Len(s) = 1 THEN BRun(s[1], 1)
    ELSE BCat(B(SubSeq(s, 1, Len(s) \div 2)), B(SubSeq(s, Len(s) \div 2 + 1, Len(s))))

\* the i-th byte (from 1) of a byte string
BByte(a, i) == BDrop(a, i - 1)[1][1]

\* the plain sequence of byte values of a (short) byte string
BSeq(a) == [i \in 1..BLen(a) |-> BByte(a, i)]

RECURSIVE BCatAll(_)
BCatAll(list) == IF list = <<>> THEN <<>> ELSE BCat(list[1], BCatAll(Tail(list)))

(***************************************************************************)
(* Unsigned integer fields.  Values of the model stay below 2^31; a field  *)
(* wider than four bytes carries zero in its high bytes.                   *)
(***************************************************************************)
Pow256(e) == CASE e = 0 -> 1 [] e = 1 -> 256 [] e = 2 -> 65536 [] e = 3 -> 16777216

UIntByte(v, e) == IF e > 3 THEN 0 ELSE (v \div Pow256(e)) % 256

ByteWeight(byte, e) == IF byte = 0 THEN 0 ELSE byte * Pow256(e)

\* k-byte big-endian field
write_be(k, v) == B([i \in 1..k |-> UIntByte(v, k - i)])

RECURSIVE SumBE(_, _, _)
SumBE(a, k, i) ==
    IF i > k THEN 0 ELSE ByteWeight(BByte(a, i), k - i) + SumBE(a, k, i + 1)

read_be(a, k) == SumBE(a, k, 1)

\* k-byte little-endian field
write_le(k, v) == B([i \in 1..k |-> UIntByte(v, i - 1)])

RECURSIVE SumLE(_, _, _)
SumLE(a, k, i) ==
    IF i > k THEN 0 ELSE ByteWeight(BByte(a, i), i - 1) + SumLE(a, k, i + 1)

read_le(a, k) == SumLE(a, k, 1)

(***************************************************************************)
(* Metadata blocks                                                         *)
(***************************************************************************)
STREAMINFO_ID == 0
PADDING_ID == 1
APPLICATION_ID == 2
SEEKTABLE_ID == 3
VORBISCOMMENT_ID == 4
CUESHEET_ID == 5
PICTURE_ID == 6

Flac_STREAMINFO(minimum_block_size, maximum_block_size, minimum_frame_size, maximum_frame_size, sample_rate, channels, bits_per_sample, total_samples, md5sum) ==
    [BLOCK_ID |-> STREAMINFO_ID,
     minimum_block_size |-> minimum_block_size,
     maximum_block_size |-> maximum_block_size,
     minimum_frame_size |-> minimum_frame_size,
     maximum_frame_size |-> maximum_frame_size,
     sample_rate |-> sample_rate,
     channels |-> channels,
     bits_per_sample |-> bits_per_sample,
     total_samples |-> total_samples,
     md5sum |-> md5sum]

Flac_PADDING(length) == [BLOCK_ID |-> PADDING_ID, length |-> length]

Flac_APPLICATION(application_id, data) ==
    [BLOCK_ID |-> APPLICATION_ID, application_id |-> application_id, data |-> data]

Flac_SEEKTABLE(seekpoints) == [BLOCK_ID |-> SEEKTABLE_ID, seekpoints |-> seekpoints]

Flac_VORBISCOMMENT(comment_strings, vendor_string) ==
    [BLOCK_ID |-> VORBISCOMMENT_ID,
     comment_strings |-> comment_strings,
     vendor_string |-> vendor_string]

Flac_CUESHEET_index(track_offset, offset, number, sample_rate) ==
    [track_offset |-> track_offset, offset |-> offset, number |-> number,
     sample_rate |-> sample_rate]

Flac_CUESHEET_track(offset, number, ISRC, track_type, pre_emphasis, index_points) ==
    [offset |-> offset, number |-> number, ISRC |-> ISRC,
     track_type |-> track_type, pre_emphasis |-> pre_emphasis,
     index_points |-> index_points]

Flac_CUESHEET(catalog_number, lead_in_samples, is_cdda, tracks) ==
    [BLOCK_ID |-> CUESHEET_ID,
     catalog_number |-> catalog_number,
     lead_in_samples |-> lead_in_samples,
     is_cdda |-> is_cdda,
     tracks |-> tracks]

Flac_PICTURE(picture_type, mime_type, description, width, height, color_depth, color_count, data) ==
    [BLOCK_ID |-> PICTURE_ID,
     picture_type |-> picture_type,
     mime_type |-> mime_type,
     description |-> description,
     width |-> width,
     height |-> height,
     color_depth |-> color_depth,
     color_count |-> color_count,
     data |-> data]

\* an object whose BLOCK_ID is none of the seven defined ones
UndefinedBlock(id) == [BLOCK_ID |-> id]

(***************************************************************************)
(* Block equality (the classes' __eq__)                                    *)
(***************************************************************************)
IndexEq(a, b) == a.offset = b.offset /\ a.number = b.number

IndexListEq(a, b) ==
    Len(a) = Len(b) /\ \A i \in 1..Len(a) : IndexEq(a[i], b[i])

TrackEq(a, b) ==
    /\ a.offset = b.offset
    /\ a.number = b.number
    /\ a.ISRC = b.ISRC
    /\ a.track_type = b.track_type
    /\ a.pre_emphasis = b.pre_emphasis
    /\ IndexListEq(a.index_points, b.index_points)

TrackListEq(a, b) ==
    Len(a) = Len(b) /\ \A i \in 1..Len(a) : TrackEq(a[i], b[i])

BlockEq(a, b) ==
    /\ a.BLOCK_ID = b.BLOCK_ID
    /\ CASE a.BLOCK_ID = PADDING_ID -> a.length = b.length
         [] a.BLOCK_ID = CUESHEET_ID ->
                /\ a.catalog_number = b.catalog_number
                /\ a.lead_in_samples = b.lead_in_samples
                /\ a.is_cdda = b.is_cdda
                /\ TrackListEq(a.tracks, b.tracks)
         [] OTHER -> a = b

BlockListEq(a, b) ==
    Len(a) = Len(b) /\ \A i \in 1..Len(a) : BlockEq(a[i], b[i])

(***************************************************************************)
(* FlacMetaData: the container operations                                  *)
(***************************************************************************)
PREFERRED_ORDER ==
    <<STREAMINFO_ID, SEEKTABLE_ID, CUESHEET_ID, VORBISCOMMENT_ID,
      PICTURE_ID, APPLICATION_ID, PADDING_ID>>

OrderIndex(block_id) ==
    CHOOSE i \in 1..Len(PREFERRED_ORDER) : PREFERRED_ORDER[i] = block_id

\* a mutant of stop_blocks: the slice starts one type too late
stop_blocks_skips_next(block_id) ==
    {PREFERRED_ORDER[i] : i \in (OrderIndex(block_id) + 2)..Len(PREFERRED_ORDER)}

stop_blocks(block_id) ==
    {PREFERRED_ORDER[i] : i \in (OrderIndex(block_id) + 1)..Len(PREFERRED_ORDER)}

InsertAt(list, index, block) ==
    SubSeq(list, 1, index - 1) \o <<block>> \o SubSeq(list, index, Len(list))

has_block(list, block_id) == \E i \in 1..Len(list) : list[i].BLOCK_ID = block_id

get_blocks(list, block_id) == SelectSeq(list, LAMBDA b : b.BLOCK_ID = block_id)

get_block(list, block_id) == get_blocks(list, block_id)[1]

\* a mutant of add_block: the block is always appended
add_block_appends(list, block) == Append(list, block)

\* a mutant of add_block: a block of the same type also stops the search
add_block_before_same(list, block) ==
    LET stops == {i \in 1..Len(list) :
                     \/ list[i].BLOCK_ID \in stop_blocks(block.BLOCK_ID)
                     \/ list[i].BLOCK_ID = block.BLOCK_ID}
    IN  IF stops # {}
        THEN InsertAt(list, CHOOSE i \in stops : \A j \in stops : i <= j, block)
        ELSE Append(list, block)

add_block(list, block) ==
    LET stops == {i \in 1..Len(list) : list[i].BLOCK_ID \in stop_blocks(block.BLOCK_ID)}
    IN  IF stops # {}
        THEN InsertAt(list, CHOOSE i \in stops : \A j \in stops : i <= j, block)
        ELSE Append(list, block)

RECURSIVE add_blocks(_, _)
add_blocks(list, blocks) ==
    IF blocks = <<>> THEN list
    ELSE add_blocks(add_block(list, blocks[1]), Tail(blocks))

\* a mutant of replace_loop: existing blocks beyond the replacements are kept
RECURSIVE replace_loop_keeps_surplus(_, _, _, _)
replace_loop_keeps_surplus(list, block_id, blocks, new_blocks) ==
    IF list = <<>> THEN <<new_blocks, blocks>>
    ELSE IF list[1].BLOCK_ID = block_id /\ Len(blocks) > 0
         THEN replace_loop_keeps_surplus(Tail(list), block_id, Tail(blocks),
                                         Append(new_blocks, blocks[1]))
         ELSE replace_loop_keeps_surplus(Tail(list), block_id, blocks,
                                         Append(new_blocks, list[1]))

\* the first loop of replace_blocks: <<new_blocks, replacements left>>
RECURSIVE replace_loop(_, _, _, _)
replace_loop(list, block_id, blocks, new_blocks) ==
    IF list = <<>> THEN <<new_blocks, blocks>>
    ELSE IF list[1].BLOCK_ID = block_id
         THEN IF Len(blocks) > 0
              THEN replace_loop(Tail(list), block_id, Tail(blocks),
                                Append(new_blocks, blocks[1]))
              ELSE replace_loop(Tail(list), block_id, blocks, new_blocks)
         ELSE replace_loop(Tail(list), block_id, blocks,
                           Append(new_blocks, list[1]))

\* a mutant of replace_blocks: the replacements left over are appended
replace_blocks_appends(list, block_id, blocks) ==
    LET r == replace_loop(list, block_id, blocks, <<>>)
    IN  r[1] \o r[2]

replace_blocks(list, block_id, blocks) ==
    LET r == replace_loop(list, block_id, blocks, <<>>)
    IN  add_blocks(r[1], r[2])

\* an audiotools Image and its conversion to a PICTURE block
Image(type, mime_type, description, width, height, color_depth, color_count, data) ==
    [type |-> type, mime_type |-> mime_type, description |-> description,
     width |-> width, height |-> height, color_depth |-> color_depth,
     color_count |-> color_count, data |-> data]

PictureTypeOfImageType(type) ==
    CASE type = 4 -> 0 [] type = 0 -> 3 [] type = 1 -> 4 [] type = 2 -> 5
      [] type = 3 -> 6 [] OTHER -> 0

ImageTypeOfPictureType(picture_type) ==
    CASE picture_type = 0 -> 4 [] picture_type = 3 -> 0 [] picture_type = 4 -> 1
      [] picture_type = 5 -> 2 [] picture_type = 6 -> 3 [] OTHER -> 4

Flac_PICTURE_converted(image) ==
    Flac_PICTURE(PictureTypeOfImageType(image.type), image.mime_type,
                 image.description, image.width, image.height,
                 image.color_depth, image.color_count, image.data)

ImageOf(b) ==
    Image(ImageTypeOfPictureType(b.picture_type), b.mime_type, b.description,
          b.width, b.height, b.color_depth, b.color_count, b.data)

\* Image.__eq__ between a PICTURE block and an Image
ImageEq(b, image) == ImageOf(b) = image

add_image(list, image) == add_block(list, Flac_PICTURE_converted(image))

delete_image(list, image) ==
    SelectSeq(list, LAMBDA b : ~(b.BLOCK_ID = PICTURE_ID /\ ImageEq(b, image)))

(***************************************************************************)
(* The blocks' own clean()                                                 *)
(***************************************************************************)
\* Python's ordering of (sample offset, byte offset, frame count) tuples
SeekpointLess(a, b) ==
    \/ a[1] < b[1]
    \/ a[1] = b[1] /\ a[2] < b[2]
    \/ a[1] = b[1] /\ a[2] = b[2] /\ a[3] < b[3]

\* sorted(set): the points of a set in ascending order
RECURSIVE SortedPoints(_)
SortedPoints(set) ==
    IF set = {} THEN <<>>
    ELSE LET least == CHOOSE p \in set : \A q \in set : q = p \/ SeekpointLess(p, q)
         IN  <<least>> \o SortedPoints(set \ {least})

Flac_SEEKTABLE_clean(block) ==
    LET nonempty_points == SelectSeq(block.seekpoints, LAMBDA p : p[3] # 0)
        ascending_order ==
            SortedPoints({nonempty_points[i] : i \in 1..Len(nonempty_points)})
    IN  [block |-> Flac_SEEKTABLE(ascending_order),
         fixes |->
            (IF Len(nonempty_points) # Len(block.seekpoints)
             THEN <<"CLEAN_FLAC_REMOVE_SEEKPOINTS">> ELSE <<>>)
            \o (IF ascending_order # nonempty_points
                THEN <<"CLEAN_FLAC_REORDER_SEEKPOINTS">> ELSE <<>>)]

\* audiotools.image.image_metrics: what the image data itself says.  The
\* model's image data carries its width and height in its first two bytes.
image_metrics(data) ==
    [mime_type |-> <<105, 109, 97, 103, 101, 47, 112, 110, 103>>,   \* "image/png"
     width |-> IF BLen(data) >= 1 THEN BByte(data, 1) ELSE 0,
     height |-> IF BLen(data) >= 2 THEN BByte(data, 2) ELSE 0,
     bits_per_pixel |-> 24,
     color_count |-> 0]

Flac_PICTURE_clean(block) ==
    LET img == image_metrics(block.data)
    IN  IF \/ block.mime_type # img.mime_type
           \/ block.width # img.width
           \/ block.height # img.height
           \/ block.color_depth # img.bits_per_pixel
           \/ block.color_count # img.color_count
        THEN [block |-> Flac_PICTURE_converted(
                            Image(ImageTypeOfPictureType(block.picture_type),
                                  img.mime_type, block.description, img.width,
                                  img.height, img.bits_per_pixel,
                                  img.color_count, block.data)),
              fixes |-> <<"CLEAN_FIX_IMAGE_FIELDS">>]
        ELSE [block |-> block, fixes |-> <<>>]

\* VorbisComment.clean, reduced to its removal of trailing blanks (code point 32)
RECURSIVE rstrip(_)
rstrip(str) ==
    IF str # <<>> /\ str[Len(str)] = 32
    THEN rstrip(SubSeq(str, 1, Len(str) - 1)) ELSE str

Flac_VORBISCOMMENT_clean(block) ==
    LET fixed == [i \in 1..Len(block.comment_strings) |->
                     rstrip(block.comment_strings[i])]
    IN  [block |-> Flac_VORBISCOMMENT(fixed, block.vendor_string),
         fixes |-> IF fixed # block.comment_strings
                   THEN <<"CLEAN_REMOVE_TRAILING_WHITESPACE">> ELSE <<>>]

(***************************************************************************)
(* FlacMetaData.clean                                                      *)
(***************************************************************************)
\* a mutant of clean_streaminfo: a late STREAMINFO stays where it is found
clean_streaminfo_in_place(st, block) ==
    IF Len(st.cleaned) = 0 \/ st.cleaned[1].BLOCK_ID # block.BLOCK_ID
    THEN [st EXCEPT !.cleaned = Append(@, block)]
    ELSE [st EXCEPT !.fixes = Append(@, "CLEAN_FLAC_MULITPLE_STREAMINFO")]

\* a mutant of clean_streaminfo: the late STREAMINFO is moved without a report
clean_streaminfo_silent(st, block) ==
    IF Len(st.cleaned) = 0
    THEN [st EXCEPT !.cleaned = Append(@, block)]
    ELSE IF st.cleaned[1].BLOCK_ID # block.BLOCK_ID
    THEN [st EXCEPT !.cleaned = <<block>> \o @]
    ELSE [st EXCEPT !.fixes = Append(@, "CLEAN_FLAC_MULITPLE_STREAMINFO")]

\* a mutant of clean_streaminfo: the late STREAMINFO is put behind the first block
clean_streaminfo_behind_first(st, block) ==
    IF Len(st.cleaned) = 0
    THEN [st EXCEPT !.cleaned = Append(@, block)]
    ELSE IF st.cleaned[1].BLOCK_ID # block.BLOCK_ID
    THEN [cleaned |-> InsertAt(st.cleaned, 2, block),
          fixes |-> Append(st.fixes, "CLEAN_FLAC_REORDERED_STREAMINFO")]
    ELSE [st EXCEPT !.fixes = Append(@, "CLEAN_FLAC_MULITPLE_STREAMINFO")]

\* the STREAMINFO branch of clean(): st = [cleaned, fixes]
clean_streaminfo(st, block) ==
    IF Len(st.cleaned) = 0
    THEN [st EXCEPT !.cleaned = Append(@, block)]
    ELSE IF st.cleaned[1].BLOCK_ID # block.BLOCK_ID
    THEN [cleaned |-> <<block>> \o st.cleaned,
          fixes |-> Append(st.fixes, "CLEAN_FLAC_REORDERED_STREAMINFO")]
    ELSE [st EXCEPT !.fixes = Append(@, "CLEAN_FLAC_MULITPLE_STREAMINFO")]

\* a mutant of clean_seektable: only a SEEKTABLE directly after another is dropped
clean_seektable_adjacent(st, block) ==
    IF st.cleaned # <<>> /\ st.cleaned[Len(st.cleaned)].BLOCK_ID = block.BLOCK_ID
    THEN [st EXCEPT !.fixes = Append(@, "CLEAN_FLAC_MULTIPLE_SEEKTABLE")]
    ELSE LET r == Flac_SEEKTABLE_clean(block)
         IN  [cleaned |-> Append(st.cleaned, r.block),
              fixes |-> st.fixes \o r.fixes]

\* a mutant of clean_seektable: a later SEEKTABLE takes the place of the first
clean_seektable_keeps_last(st, block) ==
    IF has_block(st.cleaned, block.BLOCK_ID)
    THEN [cleaned |-> [i \in 1..Len(st.cleaned) |->
                          IF st.cleaned[i].BLOCK_ID = block.BLOCK_ID
                          THEN Flac_SEEKTABLE_clean(block).block ELSE st.cleaned[i]],
          fixes |-> Append(st.fixes, "CLEAN_FLAC_MULTIPLE_SEEKTABLE")]
    ELSE LET r == Flac_SEEKTABLE_clean(block)
         IN  [cleaned |-> Append(st.cleaned, r.block),
              fixes |-> st.fixes \o r.fixes]

\* the SEEKTABLE branch of clean()
clean_seektable(st, block) ==
    IF has_block(st.cleaned, block.BLOCK_ID)
    THEN [st EXCEPT !.fixes = Append(@, "CLEAN_FLAC_MULTIPLE_SEEKTABLE")]
    ELSE LET r == Flac_SEEKTABLE_clean(block)
         IN  [cleaned |-> Append(st.cleaned, r.block),
              fixes |-> st.fixes \o r.fixes]

\* one iteration of the loop of clean(): st = [cleaned, fixes]
clean_step(st, block) ==
    LET seen == has_block(st.cleaned, block.BLOCK_ID)
    IN  CASE block.BLOCK_ID = STREAMINFO_ID -> clean_streaminfo(st, block)
          [] block.BLOCK_ID = VORBISCOMMENT_ID ->
                IF seen
                THEN [st EXCEPT !.fixes = Append(@, "CLEAN_FLAC_MULTIPLE_VORBISCOMMENT")]
                ELSE LET r == Flac_VORBISCOMMENT_clean(block)
                     IN  [cleaned |-> Append(st.cleaned, r.block),
                          fixes |-> st.fixes \o r.fixes]
          [] block.BLOCK_ID = PICTURE_ID ->
                LET r == Flac_PICTURE_clean(block)
                IN  [cleaned |-> Append(st.cleaned, r.block),
                     fixes |-> st.fixes \o r.fixes]
          [] block.BLOCK_ID = APPLICATION_ID ->
                [st EXCEPT !.cleaned = Append(@, block)]
          [] block.BLOCK_ID = SEEKTABLE_ID -> clean_seektable(st, block)
          [] block.BLOCK_ID = CUESHEET_ID ->
                IF seen
                THEN [st EXCEPT !.fixes = Append(@, "CLEAN_FLAC_MULTIPLE_CUESHEET")]
                ELSE [st EXCEPT !.cleaned = Append(@, block)]
          [] block.BLOCK_ID = PADDING_ID ->
                [st EXCEPT !.cleaned = Append(@, block)]
          [] OTHER ->
                [st EXCEPT !.fixes = Append(@, "CLEAN_FLAC_UNDEFINED_BLOCK")]

RECURSIVE clean_loop(_, _)
clean_loop(st, list) ==
    IF list = <<>> THEN st ELSE clean_loop(clean_step(st, list[1]), Tail(list))

\* clean(): [cleaned |-> the new container's blocks, fixes |-> the fix list]
clean(list) == clean_loop([cleaned |-> <<>>, fixes |-> <<>>], list)

(***************************************************************************)
(* The block codec.  A reader is the byte string still to be read; a parse *)
(* returns [ok, val, rest, err]: the value and the bytes left, or the      *)
(* exception raised.                                                       *)
(***************************************************************************)
Ok(val, rest) == [ok |-> TRUE, val |-> val, rest |-> rest, err |-> "none"]

Raise(err) == [ok |-> FALSE, val |-> <<>>, rest |-> <<>>, err |-> err]

\* an exception raised with the reader standing before the bytes r
RaiseAt(err, r) == [ok |-> FALSE, val |-> <<>>, rest |-> r, err |-> err]

\* reader.read_bytes(n): IOError on a short read
read_bytes(r, n) ==
    IF n < 0 \/ BLen(r) < n THEN Raise("IOError") ELSE Ok(BTake(r, n), BDrop(r, n))

\* str.encode('utf-8') for code points of the basic plane: the code points'
\* sequences one after another (the string is halved rather than walked)
RECURSIVE utf8_encode(_)
utf8_encode(str) ==
    IF str = <<>> THEN <<>>
    ELSE IF Len(str) = 1
    THEN IF str[1] < 128 THEN B(<<str[1]>>)
         ELSE IF str[1] < 2048
         THEN B(<<192 + (str[1] \div 64), 128 + (str[1] % 64)>>)
         ELSE B(<<224 + (str[1] \div 4096), 128 + ((str[1] \div 64) % 64),
                  128 + (str[1] % 64)>>)
    ELSE BCat(utf8_encode(SubSeq(str, 1, Len(str) \div 2)),
              utf8_encode(SubSeq(str, Len(str) \div 2 + 1, Len(str))))

\* the i-th byte of a byte string, -1 when it has fewer bytes
utf8_byte(bytes, i) == IF BLen(bytes) < i THEN -1 ELSE BByte(bytes, i)

\* a byte that continues a UTF-8 sequence
utf8_continues(b) == b >= 128 /\ b <= 191

\* the second byte a three-byte sequence may have after its first
utf8_second_of_three(b1, b2) ==
    /\ b2 >= (IF b1 = 224 THEN 160 ELSE 128)
    /\ b2 <= (IF b1 = 237 THEN 159 ELSE 191)

\* the number of bytes the decoder takes for the first code point, from the
\* first three bytes
utf8_width(b1, b2, b3) ==
    CASE b1 < 128 -> 1
      [] b1 >= 194 /\ b1 <= 223 /\ utf8_continues(b2) -> 2
      [] b1 >= 224 /\ b1 <= 239 /\ utf8_second_of_three(b1, b2) ->
            IF utf8_continues(b3) THEN 3 ELSE 2
      [] OTHER -> 1

\* the first code point decoded: U+FFFD for bytes that are no sequence
utf8_point(b1, b2, b3) ==
    CASE b1 < 128 -> b1
      [] b1 >= 194 /\ b1 <= 223 /\ utf8_continues(b2) -> (b1 - 192) * 64 + (b2 - 128)
      [] /\ b1 >= 224 /\ b1 <= 239 /\ utf8_second_of_three(b1, b2)
         /\ utf8_continues(b3) ->
            (b1 - 224) * 4096 + (b2 - 128) * 64 + (b3 - 128)
      [] OTHER -> 65533

\* bytes.decode('utf-8', 'replace') over bytes outside 0xF0..0xF4: one-, two-
\* and three-byte sequences decode to their code point, the start of a
\* three-byte sequence that is not completed to one U+FFFD, every other byte
\* to U+FFFD; bytes that are all ASCII are their own code points
RECURSIVE utf8_decode(_)
utf8_decode(bytes) ==
    IF \A i \in 1..Len(bytes) : bytes[i][1] < 128 THEN BSeq(bytes)
    ELSE LET first(b1, b2, b3) ==
                 <<utf8_point(b1, b2, b3)>>
                     \o utf8_decode(BDrop(bytes, utf8_width(b1, b2, b3)))
         IN  first(utf8_byte(bytes, 1), utf8_byte(bytes, 2), utf8_byte(bytes, 3))

\* the bytes of an ASCII string, and back
ascii_encode(str) == B(str)

ascii_decode(bytes) == BSeq(bytes)

(* STREAMINFO: 16u16u24u24u20u3u5u36U16b *)
Flac_STREAMINFO_size(block) == 34

Flac_STREAMINFO_build(block) ==
    BCatAll(<<write_be(2, block.minimum_block_size),
              write_be(2, block.maximum_block_size),
              write_be(3, block.minimum_frame_size),
              write_be(3, block.maximum_frame_size),
              B(<<block.sample_rate \div 4096,
                  (block.sample_rate \div 16) % 256,
                  (block.sample_rate % 16) * 16 + (block.channels - 1) * 2
                      + ((block.bits_per_sample - 1) \div 16),
                  ((block.bits_per_sample - 1) % 16) * 16>>),
              write_be(4, block.total_samples),
              block.md5sum>>)

\* a mutant of Flac_STREAMINFO_parse: the stored channel count and sample size
\* are taken as they are, without adding the 1 that build subtracted
Flac_STREAMINFO_parse_unbiased(r) ==
    LET fields(b, rest) ==
            Ok(Flac_STREAMINFO(
                    read_be(BTake(b, 2), 2),
                    read_be(BTake(BDrop(b, 2), 2), 2),
                    read_be(BTake(BDrop(b, 4), 3), 3),
                    read_be(BTake(BDrop(b, 7), 3), 3),
                    BByte(b, 11) * 4096 + BByte(b, 12) * 16 + (BByte(b, 13) \div 16),
                    (BByte(b, 13) \div 2) % 8,
                    (BByte(b, 13) % 2) * 16 + (BByte(b, 14) \div 16),
                    ByteWeight(BByte(b, 14) % 16, 4)
                        + read_be(BTake(BDrop(b, 14), 4), 4),
                    BDrop(b, 18)),
               rest)
        then(x) == IF ~x.ok THEN x ELSE fields(x.val, x.rest)
    IN  then(read_bytes(r, 34))

Flac_STREAMINFO_parse(r) ==
    LET fields(b, rest) ==
            Ok(Flac_STREAMINFO(
                    read_be(BTake(b, 2), 2),
                    read_be(BTake(BDrop(b, 2), 2), 2),
                    read_be(BTake(BDrop(b, 4), 3), 3),
                    read_be(BTake(BDrop(b, 7), 3), 3),
                    BByte(b, 11) * 4096 + BByte(b, 12) * 16 + (BByte(b, 13) \div 16),
                    ((BByte(b, 13) \div 2) % 8) + 1,
                    ((BByte(b, 13) % 2) * 16 + (BByte(b, 14) \div 16)) + 1,
                    ByteWeight(BByte(b, 14) % 16, 4)
                        + read_be(BTake(BDrop(b, 14), 4), 4),
                    BDrop(b, 18)),
               rest)
        then(x) == IF ~x.ok THEN x ELSE fields(x.val, x.rest)
    IN  then(read_bytes(r, 34))

(* PADDING *)
Flac_PADDING_size(block) == block.length

Flac_PADDING_build(block) == BRun(0, block.length)

Flac_PADDING_parse(r, block_length) ==
    LET then(x) == IF ~x.ok THEN x ELSE Ok(Flac_PADDING(block_length), x.rest)
    IN  then(read_bytes(r, block_length))

(* APPLICATION *)
Flac_APPLICATION_size(block) == BLen(block.application_id) + BLen(block.data)

Flac_APPLICATION_build(block) == BCat(block.application_id, block.data)

Flac_APPLICATION_parse(r, block_length) ==
    LET data(x, y) == IF ~y.ok THEN y ELSE Ok(Flac_APPLICATION(x.val, y.val), y.rest)
        id(x) == IF ~x.ok THEN x ELSE data(x, read_bytes(x.rest, block_length - 4))
    IN  id(read_bytes(r, 4))

(* SEEKTABLE: 64U64U16u per seek point *)
Flac_SEEKTABLE_size(block) == 18 * Len(block.seekpoints)

RECURSIVE build_seekpoints(_)
build_seekpoints(points) ==
    IF points = <<>> THEN <<>>
    ELSE BCatAll(<<write_be(8, points[1][1]), write_be(8, points[1][2]),
                   write_be(2, points[1][3]), build_seekpoints(Tail(points))>>)

Flac_SEEKTABLE_build(block) == build_seekpoints(block.seekpoints)

RECURSIVE parse_seekpoints(_, _, _)
parse_seekpoints(r, n, points) ==
    IF n <= 0 THEN Ok(Flac_SEEKTABLE(points), r)
    ELSE LET then(x) ==
                 IF ~x.ok THEN x
                 ELSE parse_seekpoints(x.rest, n - 1,
                          Append(points, <<read_be(BTake(x.val, 8), 8),
                                           read_be(BTake(BDrop(x.val, 8), 8), 8),
                                           read_be(BDrop(x.val, 16), 2)>>))
         IN  then(read_bytes(r, 18))

Flac_SEEKTABLE_parse(r, total_seekpoints) == parse_seekpoints(r, total_seekpoints, <<>>)

(* VORBIS_COMMENT: little-endian lengths *)
RECURSIVE comments_size(_)
comments_size(comments) ==
    IF comments = <<>> THEN 0
    ELSE 4 + BLen(utf8_encode(comments[1])) + comments_size(Tail(comments))

Flac_VORBISCOMMENT_size(block) ==
    4 + BLen(utf8_encode(block.vendor_string)) + 4 + comments_size(block.comment_strings)

RECURSIVE build_comments(_)
build_comments(comments) ==
    IF comments = <<>> THEN <<>>
    ELSE BCatAll(<<write_le(4, BLen(utf8_encode(comments[1]))),
                   utf8_encode(comments[1]), build_comments(Tail(comments))>>)

Flac_VORBISCOMMENT_build(block) ==
    BCatAll(<<write_le(4, BLen(utf8_encode(block.vendor_string))),
              utf8_encode(block.vendor_string),
              write_le(4, Len(block.comment_strings)),
              build_comments(block.comment_strings)>>)

\* a 32-bit length and that many bytes; le is TRUE for little-endian
read_counted(r, le) ==
    LET then(x) ==
            IF ~x.ok THEN x
            ELSE read_bytes(x.rest, IF le THEN read_le(x.val, 4) ELSE read_be(x.val, 4))
    IN  then(read_bytes(r, 4))

RECURSIVE parse_comments(_, _, _)
parse_comments(r, n, comments) ==
    IF n <= 0 THEN Ok(comments, r)
    ELSE LET then(x) ==
                 IF ~x.ok THEN x
                 ELSE parse_comments(x.rest, n - 1, Append(comments, utf8_decode(x.val)))
         IN  then(read_counted(r, TRUE))

Flac_VORBISCOMMENT_parse(r) ==
    LET comments(v, c) ==
            IF ~c.ok THEN c
            ELSE Ok(Flac_VORBISCOMMENT(c.val, utf8_decode(v.val)), c.rest)
        count(v, n) ==
            IF ~n.ok THEN n
            ELSE comments(v, parse_comments(n.rest, read_le(n.val, 4), <<>>))
        vendor(v) == IF ~v.ok THEN v ELSE count(v, read_bytes(v.rest, 4))
    IN  vendor(read_counted(r, TRUE))

(* CUESHEET index: 64U8u24p *)
Flac_CUESHEET_index_build(index) ==
    BCatAll(<<write_be(8, index.offset), write_be(1, index.number), BRun(0, 3)>>)

RECURSIVE build_indexes(_)
build_indexes(indexes) ==
    IF indexes = <<>> THEN <<>>
    ELSE BCat(Flac_CUESHEET_index_build(indexes[1]), build_indexes(Tail(indexes)))

\* the sample rate is not stored: a parsed index has the constructor's default
Flac_CUESHEET_index_parse(r, track_offset) ==
    LET then(x) ==
            IF ~x.ok THEN x
            ELSE Ok(Flac_CUESHEET_index(track_offset,
                                        read_be(BTake(x.val, 8), 8),
                                        BByte(x.val, 9),
                                        44100),
                    x.rest)
    IN  then(read_bytes(r, 12))

RECURSIVE parse_indexes(_, _, _, _)
parse_indexes(r, n, track_offset, indexes) ==
    IF n <= 0 THEN Ok(indexes, r)
    ELSE LET then(x) ==
                 IF ~x.ok THEN x
                 ELSE parse_indexes(x.rest, n - 1, track_offset, Append(indexes, x.val))
         IN  then(Flac_CUESHEET_index_parse(r, track_offset))

(* CUESHEET track: 64U8u12b1u1u110p8u *)
Flac_CUESHEET_track_size(track) == 36 + 12 * Len(track.index_points)

Flac_CUESHEET_track_build(track) ==
    BCatAll(<<write_be(8, track.offset),
              write_be(1, track.number),
              track.ISRC,
              B(<<track.track_type * 128 + track.pre_emphasis * 64>>),
              BRun(0, 13),
              write_be(1, Len(track.index_points)),
              build_indexes(track.index_points)>>)

RECURSIVE build_tracks(_)
build_tracks(tracks) ==
    IF tracks = <<>> THEN <<>>
    ELSE BCat(Flac_CUESHEET_track_build(tracks[1]), build_tracks(Tail(tracks)))

Flac_CUESHEET_track_parse(r) ==
    LET indexes(x, offset, i) ==
            IF ~i.ok THEN i
            ELSE Ok(Flac_CUESHEET_track(offset,
                                        BByte(x.val, 9),
                                        BTake(BDrop(x.val, 9), 12),
                                        BByte(x.val, 22) \div 128,
                                        (BByte(x.val, 22) \div 64) % 2,
                                        i.val),
                    i.rest)
        track(x, offset) ==
            indexes(x, offset, parse_indexes(x.rest, BByte(x.val, 36), offset, <<>>))
        then(x) == IF ~x.ok THEN x ELSE track(x, read_be(BTake(x.val, 8), 8))
    IN  then(read_bytes(r, 36))

RECURSIVE parse_tracks(_, _, _)
parse_tracks(r, n, tracks) ==
    IF n <= 0 THEN Ok(tracks, r)
    ELSE LET then(x) ==
                 IF ~x.ok THEN x
                 ELSE parse_tracks(x.rest, n - 1, Append(tracks, x.val))
         IN  then(Flac_CUESHEET_track_parse(r))

(* CUESHEET: 128b64U1u2071p8u *)
RECURSIVE tracks_size(_)
tracks_size(tracks) ==
    IF tracks = <<>> THEN 0
    ELSE Flac_CUESHEET_track_size(tracks[1]) + tracks_size(Tail(tracks))

Flac_CUESHEET_size(block) == 396 + tracks_size(block.tracks)

Flac_CUESHEET_build(block) ==
    BCatAll(<<block.catalog_number,
              write_be(8, block.lead_in_samples),
              B(<<block.is_cdda * 128>>),
              BRun(0, 258),
              write_be(1, Len(block.tracks)),
              build_tracks(block.tracks)>>)

Flac_CUESHEET_parse(r) ==
    LET tracks(x, t) ==
            IF ~t.ok THEN t
            ELSE Ok(Flac_CUESHEET(BTake(x.val, 128),
                                  read_be(BTake(BDrop(x.val, 128), 8), 8),
                                  BByte(x.val, 137) \div 128,
                                  t.val),
                    t.rest)
        then(x) ==
            IF ~x.ok THEN x
            ELSE tracks(x, parse_tracks(x.rest, BByte(x.val, 396), <<>>))
    IN  then(read_bytes(r, 396))

(* PICTURE: 32-bit big-endian fields and counted strings *)
Flac_PICTURE_size(block) ==
    4 + 4 + BLen(ascii_encode(block.mime_type))
      + 4 + BLen(utf8_encode(block.description))
      + 4 + 4 + 4 + 4 + 4 + BLen(block.data)

Flac_PICTURE_build(block) ==
    BCatAll(<<write_be(4, block.picture_type),
              write_be(4, BLen(ascii_encode(block.mime_type))),
              ascii_encode(block.mime_type),
              write_be(4, BLen(utf8_encode(block.description))),
              utf8_encode(block.description),
              write_be(4, block.width),
              write_be(4, block.height),
              write_be(4, block.color_depth),
              write_be(4, block.color_count),
              write_be(4, BLen(block.data)),
              block.data>>)

Flac_PICTURE_parse(r) ==
    LET data(t, mime, desc, n, x) ==
            IF ~x.ok THEN x
            ELSE Ok(Flac_PICTURE(read_be(t.val, 4),
                                 mime,
                                 desc,
                                 read_be(BTake(n.val, 4), 4),
                                 read_be(BTake(BDrop(n.val, 4), 4), 4),
                                 read_be(BTake(BDrop(n.val, 8), 4), 4),
                                 read_be(BDrop(n.val, 12), 4),
                                 x.val),
                    x.rest)
        metrics(t, mime, desc, n) ==
            IF ~n.ok THEN n ELSE data(t, mime, desc, n, read_counted(n.rest, FALSE))
        decoded(t, mime, d, desc) ==
            IF 65533 \in {desc[i] : i \in 1..Len(desc)}
            THEN Raise("UnicodeDecodeError")
            ELSE metrics(t, mime, desc, read_bytes(d.rest, 16))
        description(t, mime, d) ==
            IF ~d.ok THEN d ELSE decoded(t, mime, d, utf8_decode(d.val))
        mime_type(t, m) ==
            IF ~m.ok THEN m
            ELSE IF \E i \in 1..BLen(m.val) : BByte(m.val, i) >= 128
            THEN Raise("UnicodeDecodeError")
            ELSE description(t, ascii_decode(m.val), read_counted(m.rest, FALSE))
        type(t) == IF ~t.ok THEN t ELSE mime_type(t, read_counted(t.rest, FALSE))
    IN  type(read_bytes(r, 4))

(***************************************************************************)
(* FlacMetaData.size, build and parse                                      *)
(***************************************************************************)
block_size(block) ==
    CASE block.BLOCK_ID = STREAMINFO_ID -> Flac_STREAMINFO_size(block)
      [] block.BLOCK_ID = PADDING_ID -> Flac_PADDING_size(block)
      [] block.BLOCK_ID = APPLICATION_ID -> Flac_APPLICATION_size(block)
      [] block.BLOCK_ID = SEEKTABLE_ID -> Flac_SEEKTABLE_size(block)
      [] block.BLOCK_ID = VORBISCOMMENT_ID -> Flac_VORBISCOMMENT_size(block)
      [] block.BLOCK_ID = CUESHEET_ID -> Flac_CUESHEET_size(block)
      [] block.BLOCK_ID = PICTURE_ID -> Flac_PICTURE_size(block)

block_build(block) ==
    CASE block.BLOCK_ID = STREAMINFO_ID -> Flac_STREAMINFO_build(block)
      [] block.BLOCK_ID = PADDING_ID -> Flac_PADDING_build(block)
      [] block.BLOCK_ID = APPLICATION_ID -> Flac_APPLICATION_build(block)
      [] block.BLOCK_ID = SEEKTABLE_ID -> Flac_SEEKTABLE_build(block)
      [] block.BLOCK_ID = VORBISCOMMENT_ID -> Flac_VORBISCOMMENT_build(block)
      [] block.BLOCK_ID = CUESHEET_ID -> Flac_CUESHEET_build(block)
      [] block.BLOCK_ID = PICTURE_ID -> Flac_PICTURE_build(block)

\* FlacMetaData.size(): all blocks with their 4-byte headers
RECURSIVE metadata_size(_)
metadata_size(list) ==
    IF list = <<>> THEN 0 ELSE 4 + block_size(list[1]) + metadata_size(Tail(list))

MAX_BLOCK_SIZE == 16777216

\* a mutant of buildable: a block of exactly 2^24 bytes is written too
buildable_inclusive(list) == SelectSeq(list, LAMBDA b : block_size(b) <= MAX_BLOCK_SIZE)

\* the blocks build() serializes
buildable(list) == SelectSeq(list, LAMBDA b : block_size(b) < MAX_BLOCK_SIZE)

\* the "1u7u24u" block header
block_header(last, block_type, block_length) ==
    BCat(B(<<last * 128 + block_type>>), write_be(3, block_length))

\* a mutant of build_blocks: every header is written as the last one
RECURSIVE build_blocks_all_last(_)
build_blocks_all_last(blocks) ==
    IF blocks = <<>> THEN <<>>
    ELSE BCatAll(<<block_header(1, blocks[1].BLOCK_ID, block_size(blocks[1])),
                   block_build(blocks[1]),
                   build_blocks_all_last(Tail(blocks))>>)

RECURSIVE build_blocks(_)
build_blocks(blocks) ==
    IF blocks = <<>> THEN <<>>
    ELSE BCatAll(<<block_header(IF Len(blocks) = 1 THEN 1 ELSE 0,
                                blocks[1].BLOCK_ID, block_size(blocks[1])),
                   block_build(blocks[1]),
                   build_blocks(Tail(blocks))>>)

\* FlacMetaData.build(): the bytes written, without the 'fLaC' file ID
metadata_build(list) == build_blocks(buildable(list))

\* a mutant of parse_block: a block of a reserved type is skipped over as
\* PADDING of its length
parse_block_skips_reserved(r, block_type, block_length) ==
    CASE block_type = 0 -> Flac_STREAMINFO_parse(r)
      [] block_type = 2 -> Flac_APPLICATION_parse(r, block_length)
      [] block_type = 3 -> Flac_SEEKTABLE_parse(r, block_length \div 18)
      [] block_type = 4 -> Flac_VORBISCOMMENT_parse(r)
      [] block_type = 5 -> Flac_CUESHEET_parse(r)
      [] block_type = 6 -> Flac_PICTURE_parse(r)
      [] block_type = 127 -> RaiseAt("ValueError: invalid block", r)
      [] OTHER -> Flac_PADDING_parse(r, block_length)

parse_block(r, block_type, block_length) ==
    CASE block_type = 0 -> Flac_STREAMINFO_parse(r)
      [] block_type = 1 -> Flac_PADDING_parse(r, block_length)
      [] block_type = 2 -> Flac_APPLICATION_parse(r, block_length)
      [] block_type = 3 -> Flac_SEEKTABLE_parse(r, block_length \div 18)
      [] block_type = 4 -> Flac_VORBISCOMMENT_parse(r)
      [] block_type = 5 -> Flac_CUESHEET_parse(r)
      [] block_type = 6 -> Flac_PICTURE_parse(r)
      [] block_type >= 7 /\ block_type <= 126 -> RaiseAt("ValueError: reserved block", r)
      [] OTHER -> RaiseAt("ValueError: invalid block", r)

\* the loop of FlacMetaData.parse: val is the block list read so far
RECURSIVE parse_loop(_, _)
parse_loop(r, blocks) ==
    LET block(last, b) ==
            IF ~b.ok THEN b
            ELSE IF last = 1 THEN Ok(Append(blocks, b.val), b.rest)
            ELSE parse_loop(b.rest, Append(blocks, b.val))
        header(h) ==
            IF ~h.ok THEN h
            ELSE block(BByte(h.val, 1) \div 128,
                       parse_block(h.rest, BByte(h.val, 1) % 128,
                                   read_be(BDrop(h.val, 1), 3)))
    IN  header(read_bytes(r, 4))

\* FlacMetaData.parse(): val is the block list of the container returned
metadata_parse(r) == parse_loop(r, <<>>)

(***************************************************************************)
(* OggFlacMetaData.build and parse.  The Ogg stream is taken at the level  *)
(* of its packets: a sequence of byte strings, the first of which carries  *)
(* the STREAMINFO, each of the others one metadata block with its header.  *)
(***************************************************************************)
\* valid_blocks of OggFlacMetaData.build
ogg_valid_blocks(list) ==
    SelectSeq(list, LAMBDA b : b.BLOCK_ID # STREAMINFO_ID /\ block_size(b) < MAX_BLOCK_SIZE)

\* the packet of the extended Ogg FLAC STREAMINFO
ogg_streaminfo_packet(streaminfo, header_packets) ==
    BCatAll(<<B(<<127>>),
              B(<<70, 76, 65, 67>>),                         \* b"FLAC"
              B(<<1, 0>>),
              write_be(2, header_packets),
              B(<<102, 76, 97, 67>>),                        \* b"fLaC"
              B(<<0>>),
              write_be(3, 34),
              Flac_STREAMINFO_build(streaminfo)>>)

\* the packet of the i-th of the valid blocks
ogg_block_packet(valid_blocks, i) ==
    BCat(block_header(IF i = Len(valid_blocks) THEN 1 ELSE 0,
                      valid_blocks[i].BLOCK_ID, block_size(valid_blocks[i])),
         block_build(valid_blocks[i]))

\* OggFlacMetaData.build(): the exception raised and the packets written
OggFlacMetaData_build(list) ==
    IF ~has_block(list, STREAMINFO_ID)
    THEN [raised |-> "IndexError", packets |-> <<>>]
    ELSE [raised |-> "none",
          packets |->
              <<ogg_streaminfo_packet(get_block(list, STREAMINFO_ID),
                                      Len(ogg_valid_blocks(list)))>>
              \o [i \in 1..Len(ogg_valid_blocks(list)) |->
                     ogg_block_packet(ogg_valid_blocks(list), i)]]

\* the if / if-elif chain of OggFlacMetaData.parse on one packet: val is the
\* list of the blocks appended (none for a packet of type 0)
ogg_parse_block(r, block_type, block_length) ==
    LET one(x) == IF ~x.ok THEN x ELSE Ok(<<x.val>>, x.rest)
    IN  CASE block_type = 1 -> one(Flac_PADDING_parse(r, block_length))
          [] block_type = 2 -> one(Flac_APPLICATION_parse(r, block_length))
          [] block_type = 3 -> one(Flac_SEEKTABLE_parse(r, block_length \div 18))
          [] block_type = 4 -> one(Flac_VORBISCOMMENT_parse(r))
          [] block_type = 5 -> one(Flac_CUESHEET_parse(r))
          [] block_type = 6 -> one(Flac_PICTURE_parse(r))
          [] block_type >= 7 /\ block_type <= 126 -> RaiseAt("ValueError: reserved block", r)
          [] block_type = 127 -> RaiseAt("ValueError: invalid block", r)
          [] OTHER -> Ok(<<>>, r)

\* the loop over the header packets: rest is the packets not read
RECURSIVE ogg_parse_loop(_, _, _)
ogg_parse_loop(packets, header_packets, blocks) ==
    LET block(b) ==
            IF ~b.ok THEN [b EXCEPT !.rest = Tail(packets)]
            ELSE ogg_parse_loop(Tail(packets), header_packets - 1, blocks \o b.val)
        header(h) ==
            IF ~h.ok THEN [h EXCEPT !.rest = Tail(packets)]
            ELSE block(ogg_parse_block(h.rest, BByte(h.val, 1) % 128,
                                       read_be(BDrop(h.val, 1), 3)))
    IN  IF header_packets = 0 THEN Ok(blocks, packets)
        ELSE IF packets = <<>> THEN Raise("IOError")
        ELSE header(read_bytes(packets[1], 4))

\* OggFlacMetaData.parse(): val is the block list of the container returned
OggFlacMetaData_parse(packets) ==
    LET streaminfo(h, b) ==
            IF ~b.ok THEN [b EXCEPT !.rest = Tail(packets)]
            ELSE ogg_parse_loop(Tail(packets), read_be(BDrop(h.val, 7), 2), <<b.val>>)
        first(h) ==
            IF ~h.ok THEN [h EXCEPT !.rest = Tail(packets)]
            ELSE streaminfo(h, Flac_STREAMINFO_parse(h.rest))
    IN  IF packets = <<>> THEN Raise("IOError")
        ELSE first(read_bytes(packets[1], 17))

(***************************************************************************)
(* Sample values                                                           *)
(***************************************************************************)
\* strings are sequences of code points
STR_png == <<105, 109, 97, 103, 101, 47, 112, 110, 103>>     \* "image/png"
STR_jpeg == <<105, 109, 97, 103, 101, 47, 106, 112, 103>>    \* "image/jpg"
STR_vendor == <<80, 65, 84>>                                 \* "PAT"
STR_title == <<84, 61, 97>>                                  \* "T=a"
STR_title_blank == <<84, 61, 97, 32>>                        \* "T=a "
STR_artist == <<65, 61, 233>>                                \* "A=e-acute"
STR_cover == <<99>>                                          \* "c"

ID_riff == B(<<114, 105, 102, 102>>)                         \* b"riff"
ID_aiff == B(<<97, 105, 102, 102>>)                          \* b"aiff"
ID_test == B(<<116, 101, 115, 116>>)                         \* b"test"

SI_a == Flac_STREAMINFO(4096, 4096, 14, 1000, 44100, 2, 16, 100, BRun(0, 16))
SI_b == Flac_STREAMINFO(1152, 4608, 0, 70000, 48000, 1, 8, 17,
                        BCat(B(<<1, 2, 255>>), BRun(7, 13)))

PAD_a == Flac_PADDING(0)
PAD_b == Flac_PADDING(5)

APP_a == Flac_APPLICATION(ID_test, B(<<>>))
APP_b == Flac_APPLICATION(ID_riff, B(<<100, 97, 116, 97, 2, 0, 0, 0>>))

ST_a == Flac_SEEKTABLE(<< <<0, 0, 4>>, <<4, 10, 4>> >>)
ST_b == Flac_SEEKTABLE(<< <<8, 300, 4>>, <<0, 0, 0>>, <<4, 10, 4>>, <<4, 10, 4>> >>)

VC_a == Flac_VORBISCOMMENT(<<STR_title, STR_artist>>, STR_vendor)
VC_b == Flac_VORBISCOMMENT(<<STR_title_blank>>, <<>>)

CS_a == Flac_CUESHEET(BCat(B(<<49, 50>>), BRun(0, 126)), 88200, 1,
            <<Flac_CUESHEET_track(0, 1, BRun(0, 12), 0, 0,
                  <<Flac_CUESHEET_index(0, 0, 1, 44100)>>),
              Flac_CUESHEET_track(100, 170, BRun(0, 12), 0, 0, <<>>)>>)
CS_b == Flac_CUESHEET(BRun(0, 128), 0, 0,
            <<Flac_CUESHEET_track(0, 1, BCat(B(<<85, 83>>), BRun(0, 10)), 1, 1,
                  <<Flac_CUESHEET_index(0, 0, 0, 48000),
                    Flac_CUESHEET_index(0, 300, 1, 48000)>>),
              Flac_CUESHEET_track(70000, 255, BRun(0, 12), 0, 0, <<>>)>>)

\* a picture whose fields agree with its data, and one whose fields do not
PIC_a == Flac_PICTURE(3, STR_png, STR_cover, 2, 3, 24, 0, B(<<2, 3, 9>>))
PIC_b == Flac_PICTURE(7, STR_jpeg, <<>>, 1, 1, 8, 2, B(<<4, 4>>))

UNDEF_a == UndefinedBlock(9)

DefinedBlocks ==
    {SI_a, SI_b, PAD_a, PAD_b, APP_a, APP_b, ST_a, ST_b, VC_a, VC_b,
     CS_a, CS_b, PIC_a, PIC_b}

SeqsUpTo(S, n) == UNION {[1..k -> S] : k \in 0..n}

Count(list, block_id) == Len(get_blocks(list, block_id))

CountFix(fixes, fix) == Len(SelectSeq(fixes, LAMBDA f : f = fix))

NoOp == [op |-> "none"]

(***************************************************************************)
(* SpecClean: clean() applied to an arbitrary block sequence               *)
(***************************************************************************)
MaxCleanLen == 3

CleanPool == {SI_a, SI_b, PAD_b, APP_a, ST_a, ST_b, VC_a, VC_b, CS_a, CS_b,
              PIC_b, UNDEF_a}

InitClean ==
    /\ pc = "start"
    /\ block_list \in SeqsUpTo(CleanPool, MaxCleanLen)
    /\ cleaned_blocks = <<>>
    /\ fixes_performed = <<>>
    /\ last_op = NoOp
    /\ stream = <<>>
    /\ parsed = <<>>
    /\ file = <<>>
    /\ call = [op |-> "none"]

Clean ==
    /\ pc = "start"
    /\ pc' = "cleaned"
    /\ cleaned_blocks' = clean(block_list).cleaned
    /\ fixes_performed' = clean(block_list).fixes
    /\ last_op' = [op |-> "clean"]
    /\ UNCHANGED <<block_list, stream, parsed, file, call>>

\* clean() of the container that clean() returned
CleanAgain ==
    /\ pc = "cleaned"
    /\ pc' = "cleaned again"
    /\ call' = [op |-> "clean", cleaned |-> clean(cleaned_blocks).cleaned,
                 fixes |-> clean(cleaned_blocks).fixes]
    /\ last_op' = [op |-> "clean"]
    /\ UNCHANGED <<block_list, cleaned_blocks, fixes_performed, stream, parsed, file>>

NextClean == Clean \/ CleanAgain

SpecClean == InitClean /\ [][NextClean]_vars

SingularTypes == {STREAMINFO_ID, SEEKTABLE_ID, CUESHEET_ID, VORBISCOMMENT_ID}

\* C1: the container returned by clean() has a STREAMINFO at index 0 whenever
\* the input holds one, and holds at most one block each of STREAMINFO,
\* SEEKTABLE, CUESHEET and VORBIS_COMMENT
C1_CleanOrdering ==
    pc = "cleaned" =>
        /\ has_block(block_list, STREAMINFO_ID) =>
               cleaned_blocks # <<>> /\ cleaned_blocks[1].BLOCK_ID = STREAMINFO_ID
        /\ \A t \in SingularTypes : Count(cleaned_blocks, t) <= 1

\* a cleaned input with two STREAMINFO blocks, none of them first
C1_Witness ==
    /\ pc = "cleaned"
    /\ Count(block_list, STREAMINFO_ID) >= 2
    /\ block_list[1].BLOCK_ID # STREAMINFO_ID

\* C10: for an input with two or more SEEKTABLE blocks, clean() returns
\* exactly one SEEKTABLE and reports 'multiple seektable' once per dropped one
C10_MultipleSeektable ==
    (pc = "cleaned" /\ Count(block_list, SEEKTABLE_ID) >= 2) =>
        /\ Count(cleaned_blocks, SEEKTABLE_ID) = 1
        /\ CountFix(fixes_performed, "CLEAN_FLAC_MULTIPLE_SEEKTABLE")
               = Count(block_list, SEEKTABLE_ID) - 1

\* a cleaned input with two SEEKTABLE blocks separated by another block
C10_Witness ==
    /\ pc = "cleaned"
    /\ Count(block_list, SEEKTABLE_ID) = 2
    /\ Len(block_list) = 3
    /\ block_list[2].BLOCK_ID # SEEKTABLE_ID

DefinedTypes == {STREAMINFO_ID, PADDING_ID, APPLICATION_ID, SEEKTABLE_ID,
                 VORBISCOMMENT_ID, CUESHEET_ID, PICTURE_ID}

RemovalFixes == {"CLEAN_FLAC_MULITPLE_STREAMINFO", "CLEAN_FLAC_MULTIPLE_VORBISCOMMENT",
                 "CLEAN_FLAC_MULTIPLE_SEEKTABLE", "CLEAN_FLAC_MULTIPLE_CUESHEET",
                 "CLEAN_FLAC_UNDEFINED_BLOCK"}

\* the number of entries of a fix list that report a removed block
RemovalCount(fixes) == Cardinality({i \in 1..Len(fixes) : fixes[i] \in RemovalFixes})

\* the input blocks clean() leaves out: every block of a singular type after
\* the first of that type, and every block of an undefined type
Dropped(list) ==
    {i \in 1..Len(list) :
        \/ list[i].BLOCK_ID \notin DefinedTypes
        \/ /\ list[i].BLOCK_ID \in SingularTypes
           /\ \E j \in 1..(i - 1) : list[j].BLOCK_ID = list[i].BLOCK_ID}

\* the first STREAMINFO of the input stands behind a block that is kept
StreaminfoMoved(list) ==
    \E k \in 1..Len(list) :
        /\ list[k].BLOCK_ID = STREAMINFO_ID
        /\ \A j \in 1..(k - 1) : list[j].BLOCK_ID # STREAMINFO_ID
        /\ \E j \in 1..(k - 1) : list[j].BLOCK_ID \in DefinedTypes

\* C11: clean() drops or moves no block silently: the input blocks missing
\* from the output number exactly the 'multiple ...' and 'undefined block'
\* entries of the fix list, one entry per dropped block, and a STREAMINFO
\* moved to the front is reported by exactly one 'reordered' entry
C11_NoSilentDrop ==
    pc = "cleaned" =>
        /\ Len(block_list) - Len(cleaned_blocks) = RemovalCount(fixes_performed)
        /\ RemovalCount(fixes_performed) = Cardinality(Dropped(block_list))
        /\ \A f \in RemovalFixes :
               CountFix(fixes_performed, f) =
                   Cardinality({i \in Dropped(block_list) :
                       f = CASE block_list[i].BLOCK_ID = STREAMINFO_ID -> "CLEAN_FLAC_MULITPLE_STREAMINFO"
                             [] block_list[i].BLOCK_ID = VORBISCOMMENT_ID -> "CLEAN_FLAC_MULTIPLE_VORBISCOMMENT"
                             [] block_list[i].BLOCK_ID = SEEKTABLE_ID -> "CLEAN_FLAC_MULTIPLE_SEEKTABLE"
                             [] block_list[i].BLOCK_ID = CUESHEET_ID -> "CLEAN_FLAC_MULTIPLE_CUESHEET"
                             [] OTHER -> "CLEAN_FLAC_UNDEFINED_BLOCK"})
        /\ CountFix(fixes_performed, "CLEAN_FLAC_REORDERED_STREAMINFO")
               = (IF StreaminfoMoved(block_list) THEN 1 ELSE 0)

\* a cleaned input whose first STREAMINFO is moved to the front and whose
\* second STREAMINFO is dropped
C11_Witness ==
    /\ pc = "cleaned"
    /\ StreaminfoMoved(block_list)
    /\ Count(block_list, STREAMINFO_ID) = 2
    /\ Len(cleaned_blocks) = Len(block_list) - 1
    /\ CountFix(fixes_performed, "CLEAN_FLAC_REORDERED_STREAMINFO") = 1


\* the block that clean() makes of a block it keeps
BlockCleaned(block) ==
    CASE block.BLOCK_ID = SEEKTABLE_ID -> Flac_SEEKTABLE_clean(block).block
      [] block.BLOCK_ID = VORBISCOMMENT_ID -> Flac_VORBISCOMMENT_clean(block).block
      [] block.BLOCK_ID = PICTURE_ID -> Flac_PICTURE_clean(block).block
      [] OTHER -> block

\* the fixes that the own clean() of a kept block reports
BlockFixes(block) ==
    CASE block.BLOCK_ID = SEEKTABLE_ID -> Flac_SEEKTABLE_clean(block).fixes
      [] block.BLOCK_ID = VORBISCOMMENT_ID -> Flac_VORBISCOMMENT_clean(block).fixes
      [] block.BLOCK_ID = PICTURE_ID -> Flac_PICTURE_clean(block).fixes
      [] OTHER -> <<>>

\* the positions of the input whose block survives: a block of a defined
\* type that, when its type is singular, is the first of its type
Survivors(list) ==
    SelectSeq([i \in 1..Len(list) |-> i],
              LAMBDA i : /\ list[i].BLOCK_ID \in DefinedTypes
                         /\ list[i].BLOCK_ID \in SingularTypes =>
                                \A j \in 1..(i - 1) : list[j].BLOCK_ID # list[i].BLOCK_ID)

\* the fixes of the blocks' own clean(), in the order reported
OwnFixes(fixes) ==
    SelectSeq(fixes, LAMBDA f : f \notin RemovalFixes /\ f # "CLEAN_FLAC_REORDERED_STREAMINFO")

RECURSIVE FlattenFixes(_)
FlattenFixes(lists) ==
    IF lists = <<>> THEN <<>> ELSE lists[1] \o FlattenFixes(Tail(lists))

\* C24: the survivor of each singular type (STREAMINFO, SEEKTABLE, CUESHEET,
\* VORBIS_COMMENT) is the cleaned first block of that type of the input and
\* the later ones contribute nothing, neither a block nor a fix of their own
\* clean(); apart from a STREAMINFO moved to index 0 the surviving blocks
\* keep the relative order of the input; the input's block list is unchanged
C24_FirstSurvives ==
    /\ [](pc = "cleaned" =>
            LET kept == Survivors(block_list)
                first == SelectSeq(kept, LAMBDA i : block_list[i].BLOCK_ID = STREAMINFO_ID)
                others == SelectSeq(kept, LAMBDA i : block_list[i].BLOCK_ID # STREAMINFO_ID)
                order == first \o others
            IN  /\ cleaned_blocks = [k \in 1..Len(order) |-> BlockCleaned(block_list[order[k]])]
                /\ OwnFixes(fixes_performed)
                       = FlattenFixes([k \in 1..Len(kept) |-> BlockFixes(block_list[kept[k]])]))
    /\ [][pc' = "cleaned" => block_list' = block_list]_vars

\* a cleaned input whose second SEEKTABLE differs from the first, which needs
\* cleaning itself, behind a STREAMINFO that is not the first block
C24_Witness ==
    /\ pc = "cleaned"
    /\ block_list = <<ST_b, SI_a, ST_a>>
    /\ cleaned_blocks = <<SI_a, Flac_SEEKTABLE_clean(ST_b).block>>
    /\ cleaned_blocks[2] # ST_b

\* C28: clean() of the container that clean() returned gives a container
\* with the same block list and reports no reorder fix, no duplicate-block
\* fix and no undefined-block fix
C28_CleanIdempotent ==
    pc = "cleaned again" =>
        /\ call.cleaned = cleaned_blocks
        /\ \A i \in 1..Len(call.fixes) :
               /\ call.fixes[i] \notin RemovalFixes
               /\ call.fixes[i] # "CLEAN_FLAC_REORDERED_STREAMINFO"

\* the second clean() of an input whose first clean() moved a STREAMINFO,
\* dropped a block and cleaned a SEEKTABLE
C28_Witness ==
    /\ pc = "cleaned again"
    /\ block_list = <<ST_b, SI_a, UNDEF_a>>
    /\ Len(fixes_performed) >= 3
    /\ call.cleaned = <<SI_a, Flac_SEEKTABLE_clean(ST_b).block>>
(***************************************************************************)
(* SpecContainer: the container operations applied to a container          *)
(***************************************************************************)
InitContainerLen == 2
MaxContainerLen == 3
MaxReplace == 2

ContainerPool == {SI_a, SI_b, ST_a, CS_a, VC_a, PIC_a, PIC_b, APP_a, PAD_b}

Images == {ImageOf(PIC_a), ImageOf(PIC_b)}

\* at most one STREAMINFO and it is first, at most one SEEKTABLE, at most one CUESHEET
ContainerInvariant(list) ==
    /\ Count(list, STREAMINFO_ID) <= 1
    /\ has_block(list, STREAMINFO_ID) => list[1].BLOCK_ID = STREAMINFO_ID
    /\ Count(list, SEEKTABLE_ID) <= 1
    /\ Count(list, CUESHEET_ID) <= 1

InitContainer ==
    /\ pc = "container"
    /\ block_list \in {l \in SeqsUpTo(ContainerPool, InitContainerLen) :
                          ContainerInvariant(l)}
    /\ cleaned_blocks = <<>>
    /\ fixes_performed = <<>>
    /\ last_op = NoOp
    /\ stream = <<>>
    /\ parsed = <<>>
    /\ file = <<>>
    /\ call = [op |-> "none"]

AddBlock ==
    \E block \in ContainerPool :
        /\ Len(block_list) < MaxContainerLen
        /\ block_list' = add_block(block_list, block)
        /\ last_op' = [op |-> "add_block", block |-> block]
        /\ UNCHANGED <<pc, cleaned_blocks, fixes_performed, stream, parsed, file, call>>

ReplaceBlocks ==
    \E block_id \in 0..6 :
        \E blocks \in SeqsUpTo({b \in ContainerPool : b.BLOCK_ID = block_id}, MaxReplace) :
            /\ Len(replace_blocks(block_list, block_id, blocks)) <= MaxContainerLen
            /\ block_list' = replace_blocks(block_list, block_id, blocks)
            /\ last_op' = [op |-> "replace_blocks", block_id |-> block_id,
                           blocks |-> blocks, before |-> block_list]
            /\ UNCHANGED <<pc, cleaned_blocks, fixes_performed, stream, parsed, file, call>>

AddImage ==
    \E image \in Images :
        /\ Len(block_list) < MaxContainerLen
        /\ block_list' = add_image(block_list, image)
        /\ last_op' = [op |-> "add_image", image |-> image]
        /\ UNCHANGED <<pc, cleaned_blocks, fixes_performed, stream, parsed, file, call>>

DeleteImage ==
    \E image \in Images :
        /\ block_list' = delete_image(block_list, image)
        /\ last_op' = [op |-> "delete_image", image |-> image]
        /\ UNCHANGED <<pc, cleaned_blocks, fixes_performed, stream, parsed, file, call>>

NextContainer == AddBlock \/ ReplaceBlocks \/ AddImage \/ DeleteImage

SpecContainer == InitContainer /\ [][NextContainer]_vars

\* C3 as stated: every container reachable by add_block, replace_blocks,
\* add_image and delete_image has at most one STREAMINFO, at index 0, at most
\* one SEEKTABLE and at most one CUESHEET
C3_Original == ContainerInvariant(block_list)

IsUniqueType(block_id) == block_id \in {STREAMINFO_ID, SEEKTABLE_ID, CUESHEET_ID}

\* an operation that adds no second block of a type that must be unique
AddsNoDuplicate(before, op) ==
    CASE op.op = "add_block" ->
            IsUniqueType(op.block.BLOCK_ID) => ~has_block(before, op.block.BLOCK_ID)
      [] op.op = "replace_blocks" ->
            IsUniqueType(op.block_id) => Len(op.blocks) <= 1
      [] OTHER -> TRUE

\* C3 (amended): a container operation that does not itself add a second
\* STREAMINFO, SEEKTABLE or CUESHEET keeps the invariant: at most one
\* STREAMINFO, at index 0, at most one SEEKTABLE, at most one CUESHEET
C3_Amended ==
    [][(ContainerInvariant(block_list) /\ AddsNoDuplicate(block_list, last_op'))
          => ContainerInvariant(block_list')]_vars

\* a STREAMINFO added to a non-empty container that had none
C3_Witness ==
    /\ last_op.op = "add_block"
    /\ last_op.block.BLOCK_ID = STREAMINFO_ID
    /\ Len(block_list) >= 2
    /\ Count(block_list, STREAMINFO_ID) = 1

\* the list without its element at index k
RemoveAt(list, k) == SubSeq(list, 1, k - 1) \o SubSeq(list, k + 1, Len(list))

\* the types that come strictly later than block_id in the preferred order
LaterType(t, block_id) ==
    /\ t \in DefinedTypes
    /\ OrderIndex(t) > OrderIndex(block_id)

\* after is before with block inserted at index k, the index of the first
\* block of a strictly later type, or the end when there is none
InsertedBeforeFirstLater(before, block, after, k) ==
    /\ k \in 1..Len(after)
    /\ after[k] = block
    /\ RemoveAt(after, k) = before
    /\ \A j \in 1..(k - 1) : ~LaterType(before[j].BLOCK_ID, block.BLOCK_ID)
    /\ k <= Len(before) => LaterType(before[k].BLOCK_ID, block.BLOCK_ID)

\* C12: add_block(b) inserts b immediately before the first existing block of
\* a type strictly later than b's in the preferred order, or appends b when
\* there is none; the container grows by exactly one block and the blocks
\* already present keep their relative order
C12_AddBlockPosition ==
    [][last_op'.op = "add_block" =>
          /\ Len(block_list') = Len(block_list) + 1
          /\ \E k \in 1..Len(block_list') :
                 InsertedBeforeFirstLater(block_list, last_op'.block, block_list', k)]_vars

\* a block added in the middle of a container, behind a block of its own type
C12_Witness ==
    /\ last_op.op = "add_block"
    /\ Len(block_list) = 3
    /\ block_list[2] = last_op.block
    /\ block_list[1].BLOCK_ID = last_op.block.BLOCK_ID
    /\ LaterType(block_list[3].BLOCK_ID, last_op.block.BLOCK_ID)

\* how many blocks of the type stand at the indexes up to p
Rank(list, block_id, p) == Cardinality({q \in 1..p : list[q].BLOCK_ID = block_id})

\* the list in which the i-th block of the type is blocks[i], the blocks of
\* the type beyond Len(blocks) are left out and every other block stays
Paired(list, block_id, blocks) ==
    LET indexes == [p \in 1..Len(list) |-> p]
        stays(p) == list[p].BLOCK_ID = block_id => Rank(list, block_id, p) <= Len(blocks)
        kept == SelectSeq(indexes, stays)
    IN  [n \in 1..Len(kept) |->
            IF list[kept[n]].BLOCK_ID = block_id
            THEN blocks[Rank(list, block_id, kept[n])]
            ELSE list[kept[n]]]

\* C13: replace_blocks(type, blocks) puts the i-th replacement in the place of
\* the i-th existing block of the type, removes the existing blocks beyond the
\* replacements, adds the replacements beyond the existing blocks through
\* add_block, and keeps the blocks of other types in their relative order
C13_ReplacePairs ==
    [][last_op'.op = "replace_blocks" =>
          LET block_id == last_op'.block_id
              blocks == last_op'.blocks
              n == Count(block_list, block_id)
              other(list) == SelectSeq(list, LAMBDA b : b.BLOCK_ID # block_id)
          IN  /\ other(block_list') = other(block_list)
              /\ Count(block_list', block_id) = Len(blocks)
              /\ Len(blocks) <= n => block_list' = Paired(block_list, block_id, blocks)
              /\ Len(blocks) > n =>
                     block_list' = add_blocks(Paired(block_list, block_id, SubSeq(blocks, 1, n)),
                                              SubSeq(blocks, n + 1, Len(blocks)))]_vars

\* one replacement for two existing blocks, the second of which is removed
C13_Witness ==
    /\ last_op.op = "replace_blocks"
    /\ Len(last_op.blocks) = 1
    /\ Len(last_op.before) = 3
    /\ Count(last_op.before, last_op.block_id) = 2
    /\ last_op.before[1].BLOCK_ID # last_op.block_id
    /\ last_op.before[2] # last_op.blocks[1]
    /\ block_list = <<last_op.before[1], last_op.blocks[1]>>

\* C27 as stated: for every container and every list L of blocks of one
\* type, after replace_blocks(type, L) get_blocks(type) returns exactly the
\* blocks of L, in the order of L
C27_Original ==
    last_op.op = "replace_blocks" =>
        get_blocks(block_list, last_op.block_id) = last_op.blocks

\* the number of blocks of the type that take a replacement
PairedCount(before, block_id, blocks) ==
    IF Count(before, block_id) < Len(blocks) THEN Count(before, block_id) ELSE Len(blocks)

\* the number of those that stand before the container's first block of a
\* type later in the preferred order
PairedInFront(before, block_id, blocks) ==
    Cardinality({i \in 1..Len(before) :
        /\ before[i].BLOCK_ID = block_id
        /\ Count(SubSeq(before, 1, i), block_id) <= Len(blocks)
        /\ \A j \in 1..(i - 1) : before[j].BLOCK_ID \notin stop_blocks(block_id)})

\* C27 amended: for a type of the preferred order, after
\* replace_blocks(type, L) get_blocks(type) returns the blocks of L, each as
\* often as L holds it: first the ones that replaced
\* blocks standing before the container's first block of a later type of the
\* preferred order, then the ones for which no block was left to replace,
\* then the ones that replaced the other blocks; this is the order of L when
\* L is no longer than the number of blocks replaced, or when no block of a
\* later type stood before a replaced block
C27_Amended ==
    last_op.op = "replace_blocks" =>
        LET L == last_op.blocks
            k == PairedCount(last_op.before, last_op.block_id, L)
            a == PairedInFront(last_op.before, last_op.block_id, L)
            result == get_blocks(block_list, last_op.block_id)
        IN  /\ result = SubSeq(L, 1, a) \o SubSeq(L, k + 1, Len(L)) \o SubSeq(L, a + 1, k)
            /\ (k = Len(L) \/ a = k) => result = L

\* a PICTURE behind an APPLICATION block replaced by two PICTUREs: the
\* second one is put in front of the first
C27_Witness ==
    /\ last_op.op = "replace_blocks"
    /\ last_op.before = <<APP_a, PIC_a>>
    /\ last_op.blocks = <<PIC_a, PIC_b>>
    /\ block_list = <<PIC_b, APP_a, PIC_a>>

(***************************************************************************)
(* SpecCodec: a container is built, and the bytes written are parsed       *)
(***************************************************************************)
MaxCodecLen == 2

\* a PADDING block of the largest size a header can carry, and one too large
PAD_max == Flac_PADDING(MAX_BLOCK_SIZE - 1)
PAD_big == Flac_PADDING(MAX_BLOCK_SIZE)

CodecPool == DefinedBlocks \cup {PAD_max, PAD_big}

InitCodec ==
    /\ pc = "container"
    /\ block_list \in SeqsUpTo(CodecPool, MaxCodecLen) \ {<<>>}
    /\ cleaned_blocks = <<>>
    /\ fixes_performed = <<>>
    /\ last_op = NoOp
    /\ stream = <<>>
    /\ parsed = <<>>
    /\ file = <<>>
    /\ call = [op |-> "none"]

Build ==
    /\ pc = "container"
    /\ pc' = "built"
    /\ stream' = metadata_build(block_list)
    /\ last_op' = [op |-> "build"]
    /\ UNCHANGED <<block_list, cleaned_blocks, fixes_performed, parsed, file, call>>

Parse ==
    /\ pc = "built"
    /\ pc' = "parsed"
    /\ parsed' = metadata_parse(stream)
    /\ last_op' = [op |-> "parse"]
    /\ UNCHANGED <<block_list, cleaned_blocks, fixes_performed, stream, file, call>>

BuildOgg ==
    /\ pc = "container"
    /\ pc' = "ogg built"
    /\ stream' = OggFlacMetaData_build(block_list).packets
    /\ last_op' = [op |-> "ogg build", raised |-> OggFlacMetaData_build(block_list).raised]
    /\ UNCHANGED <<block_list, cleaned_blocks, fixes_performed, parsed, file, call>>

ParseOgg ==
    /\ pc = "ogg built"
    /\ last_op.raised = "none"
    /\ pc' = "ogg parsed"
    /\ parsed' = OggFlacMetaData_parse(stream)
    /\ last_op' = [op |-> "ogg parse"]
    /\ UNCHANGED <<block_list, cleaned_blocks, fixes_performed, stream, file, call>>

NextCodec == Build \/ Parse \/ BuildOgg \/ ParseOgg

SpecCodec == InitCodec /\ [][NextCodec]_vars

\* a valid container: not empty, every block of a defined type and of an
\* encoded size below 2^24
ValidContainer(list) ==
    /\ list # <<>>
    /\ \A i \in 1..Len(list) :
           /\ list[i].BLOCK_ID \in 0..6
           /\ block_size(list[i]) < MAX_BLOCK_SIZE

\* C6: parse applied to the bytes build wrote for a valid container returns
\* a block list equal to the original, block by block and in the same order
C6_RoundTrip ==
    (pc = "parsed" /\ ValidContainer(block_list)) =>
        /\ parsed.ok
        /\ BlockListEq(parsed.val, block_list)
        /\ parsed.rest = <<>>

\* a parsed valid container of two blocks, one of them a CUESHEET whose
\* indexes do not carry the default sample rate
C6_Witness ==
    /\ pc = "parsed"
    /\ ValidContainer(block_list)
    /\ Len(block_list) >= 2
    /\ \E i \in 1..Len(block_list) : block_list[i] = CS_b

\* the blocks of an encoded size of at most 2^24 - 1, in container order
Representable(list) == SelectSeq(list, LAMBDA b : block_size(b) <= MAX_BLOCK_SIZE - 1)

\* the bytes are the blocks of the list, each behind a 4-byte header, and
\* nothing else
SerializesExactly(bytes, result, list) ==
    IF list = <<>> THEN bytes = <<>>
    ELSE /\ result.ok
         /\ BlockListEq(result.val, list)
         /\ result.rest = <<>>
         /\ BLen(bytes) = metadata_size(list)

\* the packets are the blocks of the list: they parse back to it and every
\* packet behind the first is one block behind its 4-byte header
PacketsExactly(packets, result, list) ==
    /\ result.ok
    /\ BlockListEq(result.val, list)
    /\ result.rest = <<>>
    /\ Len(packets) = Len(list)
    /\ \A i \in 2..Len(packets) : BLen(packets[i]) = 4 + block_size(list[i])

\* C18 as stated: build, native and Ogg, serializes exactly the blocks of an
\* encoded size of at most 2^24 - 1, in container order, and nothing for a
\* larger block
C18_Original ==
    /\ pc = "parsed" => SerializesExactly(stream, parsed, Representable(block_list))
    /\ pc = "ogg built" => last_op.raised = "none"
    /\ pc = "ogg parsed" => PacketsExactly(stream, parsed, Representable(block_list))

\* what OggFlacMetaData.build writes: the first STREAMINFO, then the other
\* blocks of at most 2^24 - 1 bytes that are no STREAMINFO
OggWritten(list) ==
    <<get_block(list, STREAMINFO_ID)>>
        \o SelectSeq(Representable(list), LAMBDA b : b.BLOCK_ID # STREAMINFO_ID)

\* C18 amended: FlacMetaData.build serializes exactly the blocks of an encoded
\* size of at most 2^24 - 1, in container order, and nothing for a larger
\* block.  OggFlacMetaData.build raises IndexError and writes nothing for a
\* container without STREAMINFO; otherwise it writes the first STREAMINFO as
\* the first packet, wherever the block stands, and after it exactly the
\* blocks of at most 2^24 - 1 bytes that are no STREAMINFO, in container
\* order: the same blocks as the native build when the container holds one
\* STREAMINFO, at index 0
C18_Amended ==
    /\ pc = "parsed" => SerializesExactly(stream, parsed, Representable(block_list))
    /\ pc = "ogg built" =>
           /\ last_op.raised = (IF has_block(block_list, STREAMINFO_ID)
                                THEN "none" ELSE "IndexError")
           /\ last_op.raised # "none" => stream = <<>>
    /\ pc = "ogg parsed" =>
           /\ PacketsExactly(stream, parsed, OggWritten(block_list))
           /\ (Count(block_list, STREAMINFO_ID) = 1 /\ block_list[1].BLOCK_ID = STREAMINFO_ID)
                  => OggWritten(block_list) = Representable(block_list)

\* an Ogg build of a container whose STREAMINFO stands behind a block too
\* large to be written
C18_Witness ==
    /\ pc = "ogg parsed"
    /\ Len(block_list) = 2
    /\ block_list[1] = PAD_big
    /\ block_list[2].BLOCK_ID = STREAMINFO_ID
    /\ Len(stream) = 1

(***************************************************************************)
(* FlacAudio.get_metadata and FlacAudio.update_metadata                    *)
(***************************************************************************)
MAX_PADDING_SIZE == 1048576

FILE_ID == B(<<102, 76, 97, 67>>)                            \* b"fLaC"

\* get_metadata(): the block list parsed after the file ID.  A file without
\* the ID gives None, on which update_metadata raises at its first use
get_metadata(f, stream_offset) ==
    LET then(id) ==
            IF ~id.ok THEN id
            ELSE IF id.val = FILE_ID THEN metadata_parse(id.rest)
            ELSE Raise("AttributeError")
    IN  then(read_bytes(BDrop(f, stream_offset), 4))

\* sum(b.size() for b in padding_blocks)
RECURSIVE total_padding_size(_)
total_padding_size(padding_blocks) ==
    IF padding_blocks = <<>> THEN 0
    ELSE Flac_PADDING_size(padding_blocks[1]) + total_padding_size(Tail(padding_blocks))

\* a mutant of patch_eligible: metadata that shrank is never patched in place
patch_eligible_growth_only(metadata, old_metadata) ==
    /\ Len(get_blocks(metadata, PADDING_ID)) > 0
    /\ BlockListEq(get_blocks(old_metadata, PADDING_ID), get_blocks(metadata, PADDING_ID))
    /\ 0 <= metadata_size(metadata) - metadata_size(old_metadata)
    /\ metadata_size(metadata) - metadata_size(old_metadata)
           <= total_padding_size(get_blocks(metadata, PADDING_ID))
    /\ (-(metadata_size(metadata) - metadata_size(old_metadata))
            + total_padding_size(get_blocks(metadata, PADDING_ID))) <= MAX_PADDING_SIZE

\* the condition of the branch of update_metadata
patch_eligible(metadata, old_metadata) ==
    LET test(has_padding, padding_unchanged, total, metadata_delta) ==
            /\ has_padding
            /\ padding_unchanged
            /\ metadata_delta <= total
            /\ (-metadata_delta + total) <= MAX_PADDING_SIZE
    IN  test(Len(get_blocks(metadata, PADDING_ID)) > 0,
             BlockListEq(get_blocks(old_metadata, PADDING_ID),
                         get_blocks(metadata, PADDING_ID)),
             total_padding_size(get_blocks(metadata, PADDING_ID)),
             metadata_size(metadata) - metadata_size(old_metadata))

\* a mutant of adjust_padding: growth is taken from the first PADDING block
\* large enough for what is left of it, smaller blocks are passed over
RECURSIVE adjust_padding_first_fit(_, _)
adjust_padding_first_fit(list, metadata_delta) ==
    IF list = <<>> THEN <<>>
    ELSE IF list[1].BLOCK_ID # PADDING_ID
    THEN <<list[1]>> \o adjust_padding_first_fit(Tail(list), metadata_delta)
    ELSE IF metadata_delta > 0
    THEN IF metadata_delta <= list[1].length
         THEN <<Flac_PADDING(list[1].length - metadata_delta)>>
                  \o adjust_padding_first_fit(Tail(list), 0)
         ELSE <<list[1]>> \o adjust_padding_first_fit(Tail(list), metadata_delta)
    ELSE IF metadata_delta < 0
    THEN <<Flac_PADDING(list[1].length + (-metadata_delta))>>
             \o adjust_padding_first_fit(Tail(list), 0)
    ELSE list

\* the loop over the PADDING blocks of metadata: growth is taken from the
\* blocks in order, shrinkage is added to the first one
RECURSIVE adjust_padding(_, _)
adjust_padding(list, metadata_delta) ==
    IF list = <<>> THEN <<>>
    ELSE IF list[1].BLOCK_ID # PADDING_ID
    THEN <<list[1]>> \o adjust_padding(Tail(list), metadata_delta)
    ELSE IF metadata_delta > 0
    THEN IF metadata_delta <= list[1].length
         THEN <<Flac_PADDING(list[1].length - metadata_delta)>>
              \o adjust_padding(Tail(list), 0)
         ELSE <<Flac_PADDING(0)>>
              \o adjust_padding(Tail(list), metadata_delta - list[1].length)
    ELSE IF metadata_delta < 0
    THEN <<Flac_PADDING(list[1].length + (-metadata_delta))>>
         \o adjust_padding(Tail(list), 0)
    ELSE list

\* a write of data at offset into a file opened 'r+b'
overwrite(f, offset, data) ==
    BCatAll(<<BTake(f, offset), data, BSkip(f, offset + BLen(data))>>)

\* the bytes of data that reach the disk: all of them, or the first
\* io.written when an I/O error ends the writing
reaching_disk(data, io) == IF io.fails THEN BTake(data, io.written) ELSE data

\* the patch-in-place branch: the file after it
patch_in_place(f, stream_offset, metadata, old_metadata, io) ==
    overwrite(f, stream_offset,
        reaching_disk(
            BCat(FILE_ID,
                 metadata_build(
                     adjust_padding(metadata,
                         metadata_size(metadata) - metadata_size(old_metadata)))),
            io))

\* the loop that skips the old metadata blocks: the bytes after the block
\* whose header has the stop bit (every file of the model holds such a block,
\* so the short-header case is never taken)
RECURSIVE skip_blocks(_)
\* a mutant of skip_blocks: one block is skipped whatever its stop bit says
skip_blocks_first_only(r) ==
    LET then(h) ==
            IF ~h.ok THEN <<>>
            ELSE BSkip(h.rest, read_be(BDrop(h.val, 1), 3))
    IN  then(read_bytes(r, 4))

skip_blocks(r) ==
    LET then(h) ==
            IF ~h.ok THEN <<>>
            ELSE IF BByte(h.val, 1) \div 128 = 1
            THEN BSkip(h.rest, read_be(BDrop(h.val, 1), 3))
            ELSE skip_blocks(BSkip(h.rest, read_be(BDrop(h.val, 1), 3)))
    IN  then(read_bytes(r, 4))

\* the full-rewrite branch: the file after it.  TemporaryFile keeps the new
\* bytes at a scratch path and moves them to the file's path when closed
full_rewrite(f, stream_offset, metadata, io) ==
    IF io.fails THEN f
    ELSE BCatAll(<<BTake(f, stream_offset),
                   FILE_ID,
                   metadata_build(metadata),
                   skip_blocks(BDrop(f, stream_offset + 4))>>)

\* isinstance(metadata, FlacMetaData): an object is a record with its class;
\* OggFlacMetaData is a subclass of FlacMetaData
isinstance_FlacMetaData(metadata) ==
    metadata.class \in {"FlacMetaData", "OggFlacMetaData"}

\* a mutant of check_argument: the class is tested after the metadata on disk
\* has been read
check_argument_late(f, stream_offset, metadata) ==
    IF metadata.class = "NoneType"
    THEN [outcome |-> "return", raised |-> "none", steps |-> <<>>]
    ELSE IF ~get_metadata(f, stream_offset).ok
    THEN [outcome |-> "raise", raised |-> get_metadata(f, stream_offset).err,
          steps |-> <<"get_metadata">>]
    ELSE IF ~isinstance_FlacMetaData(metadata)
    THEN [outcome |-> "raise", raised |-> "ValueError", steps |-> <<"get_metadata">>]
    ELSE [outcome |-> "continue", raised |-> "none", steps |-> <<"get_metadata">>]

\* the statements of update_metadata up to the read of the old metadata:
\* how the call goes on, the exception raised and the I/O steps made so far
check_argument(f, stream_offset, metadata) ==
    IF metadata.class = "NoneType"
    THEN [outcome |-> "return", raised |-> "none", steps |-> <<>>]
    ELSE IF ~isinstance_FlacMetaData(metadata)
    THEN [outcome |-> "raise", raised |-> "ValueError", steps |-> <<>>]
    ELSE IF ~get_metadata(f, stream_offset).ok
    THEN [outcome |-> "raise", raised |-> get_metadata(f, stream_offset).err,
          steps |-> <<"get_metadata">>]
    ELSE [outcome |-> "continue", raised |-> "none", steps |-> <<"get_metadata">>]

(***************************************************************************)
(* SpecPlanner: one call of update_metadata on a file on disk              *)
(***************************************************************************)
VC_c == Flac_VORBISCOMMENT(<<STR_title>>, STR_vendor)

\* a VORBIS_COMMENT block as another encoder wrote it: the vendor string is
\* the two bytes FF 61, which are not UTF-8, and there are no comments
RawComment == BCatAll(<<write_le(4, 2), B(<<255, 97>>), write_le(4, 0)>>)

RawRegion ==
    BCatAll(<<block_header(0, STREAMINFO_ID, 34), Flac_STREAMINFO_build(SI_a),
              block_header(0, VORBISCOMMENT_ID, BLen(RawComment)), RawComment,
              block_header(1, PADDING_ID, 5), Flac_PADDING_build(PAD_b)>>)

\* the metadata regions of the files on disk
DiskLists ==
    {<<SI_a, VC_b, PAD_b>>,
     <<SI_b, VC_a, PAD_b>>,
     <<SI_a, VC_a>>,
     <<SI_a, Flac_PADDING(1), VC_b, PAD_b>>,
     <<SI_b, Flac_PADDING(1), VC_a, PAD_b>>,
     <<SI_b, VC_a, Flac_PADDING(MAX_PADDING_SIZE)>>,
     <<SI_a, VC_b, Flac_PADDING(MAX_PADDING_SIZE + 1)>>}

Regions == {metadata_build(list) : list \in DiskLists} \cup {RawRegion}

\* bytes before the stream (an ID3v2 tag), and the FLAC frames after the metadata
Prefixes == {<<>>, B(<<73, 68, 51>>)}

Payloads == {B(<<255>>), B(<<255, 248, 201, 24, 0, 194>>)}

\* what a caller does to the metadata it read before passing it back
Edits(old_metadata) ==
    {old_metadata,
     add_block(old_metadata, APP_a),
     replace_blocks(old_metadata, VORBISCOMMENT_ID, <<VC_a>>),
     replace_blocks(old_metadata, VORBISCOMMENT_ID, <<VC_b>>),
     replace_blocks(old_metadata, VORBISCOMMENT_ID, <<VC_c>>),
     replace_blocks(old_metadata, PADDING_ID, <<>>),
     replace_blocks(old_metadata, PADDING_ID, <<Flac_PADDING(7)>>)}

\* the I/O of a call: it succeeds, or an error ends it after some bytes
FailPoints == {0, 4, 9, 60}

IOOutcomes ==
    {[fails |-> FALSE, written |-> 0]}
        \cup {[fails |-> TRUE, written |-> n] : n \in FailPoints}

InitPlanner ==
    /\ pc = "file"
    /\ \E prefix \in Prefixes, region \in Regions, payload \in Payloads :
           /\ file = BCatAll(<<prefix, FILE_ID, region, payload>>)
           /\ call = [op |-> "open", stream_offset |-> BLen(prefix)]
    /\ block_list = <<>>
    /\ cleaned_blocks = <<>>
    /\ fixes_performed = <<>>
    /\ last_op = NoOp
    /\ stream = <<>>
    /\ parsed = <<>>

UpdateMetadata ==
    /\ pc = "file"
    /\ get_metadata(file, call.stream_offset).ok
    /\ \E io \in IOOutcomes :
       \E metadata \in Edits(get_metadata(file, call.stream_offset).val) :
           LET run(old_metadata) ==
                   IF patch_eligible(metadata, old_metadata)
                   THEN /\ file' = patch_in_place(file, call.stream_offset,
                                                  metadata, old_metadata, io)
                        /\ call' = [op |-> "update_metadata", path |-> "patch",
                                    stream_offset |-> call.stream_offset,
                                    metadata |-> metadata,
                                    old_metadata |-> old_metadata,
                                    adjusted |-> adjust_padding(metadata,
                                        metadata_size(metadata) - metadata_size(old_metadata)),
                                    io |-> io, before |-> file]
                   ELSE /\ file' = full_rewrite(file, call.stream_offset, metadata, io)
                        /\ call' = [op |-> "update_metadata", path |-> "rewrite",
                                    stream_offset |-> call.stream_offset,
                                    metadata |-> metadata,
                                    old_metadata |-> old_metadata,
                                    io |-> io, before |-> file]
           IN  run(get_metadata(file, call.stream_offset).val)
    /\ pc' = "updated"
    /\ UNCHANGED <<block_list, cleaned_blocks, fixes_performed, last_op, stream, parsed>>

\* what a caller may hand over that is no FlacMetaData: None, or the metadata
\* object of another format
ForeignMetadata ==
    {[class |-> "NoneType"], [class |-> "ID3v2Comment"],
     [class |-> "VorbisComment"], [class |-> "MetaData"]}

\* a call of update_metadata that ends before the planner: the argument is
\* None or of a foreign class
UpdateMetadataForeign ==
    /\ pc = "file"
    /\ \E metadata \in ForeignMetadata :
           LET r == check_argument(file, call.stream_offset, metadata)
           IN  /\ r.outcome # "continue"
               /\ call' = [op |-> "update_metadata", path |-> "none",
                           stream_offset |-> call.stream_offset,
                           metadata |-> metadata, outcome |-> r.outcome,
                           raised |-> r.raised, steps |-> r.steps, before |-> file]
    /\ pc' = "returned"
    /\ UNCHANGED <<file, block_list, cleaned_blocks, fixes_performed, last_op, stream, parsed>>

NextPlanner == UpdateMetadata \/ UpdateMetadataForeign

SpecPlanner == InitPlanner /\ [][NextPlanner]_vars

\* P and D of a call, from the metadata passed and the metadata read from disk
PaddingTotal == total_padding_size(get_blocks(call.metadata, PADDING_ID))

MetadataDelta == metadata_size(call.metadata) - metadata_size(call.old_metadata)

\* the number of bytes the metadata blocks take in the file before the call
RegionSize ==
    BLen(call.before) - call.stream_offset - 4
        - BLen(skip_blocks(BSkip(call.before, call.stream_offset + 4)))

\* C2 as stated: patch-in-place is taken exactly when the new metadata has a
\* PADDING block, its PADDING blocks equal those on disk, 0 <= D <= P and
\* P - D <= MAX_PADDING_SIZE
C2_Original ==
    pc = "updated" =>
        (call.path = "patch" <=>
            /\ Len(get_blocks(call.metadata, PADDING_ID)) > 0
            /\ BlockListEq(get_blocks(call.old_metadata, PADDING_ID),
                           get_blocks(call.metadata, PADDING_ID))
            /\ 0 <= MetadataDelta
            /\ MetadataDelta <= PaddingTotal
            /\ PaddingTotal - MetadataDelta <= MAX_PADDING_SIZE)

\* C2 amended: patch-in-place is taken exactly when the new metadata has a
\* PADDING block, its PADDING blocks equal those read from disk, D <= P (D may
\* be negative) and P - D <= MAX_PADDING_SIZE; otherwise the file is rewritten
C2_Amended ==
    pc = "updated" =>
        /\ call.path \in {"patch", "rewrite"}
        /\ call.path = "patch" <=>
               /\ Len(get_blocks(call.metadata, PADDING_ID)) > 0
               /\ BlockListEq(get_blocks(call.old_metadata, PADDING_ID),
                              get_blocks(call.metadata, PADDING_ID))
               /\ MetadataDelta <= PaddingTotal
               /\ PaddingTotal - MetadataDelta <= MAX_PADDING_SIZE

\* a call that patched in place metadata smaller than the metadata on disk
C2_Witness ==
    /\ pc = "updated"
    /\ call.path = "patch"
    /\ MetadataDelta < 0

\* C4: when an I/O error ends update_metadata, on either path, the bytes at
\* the file's path are those present before the call
C4_ErrorLeavesFile ==
    (pc = "updated" /\ call.io.fails) => file = call.before

\* C5: after a patch in place the file has the length it had and every byte
\* from stream_offset + 4 + (old metadata size) on is the byte it was
C5_PatchKeepsPayload ==
    (pc = "updated" /\ call.path = "patch") =>
        /\ BLen(file) = BLen(call.before)
        /\ BSkip(file, call.stream_offset + 4 + RegionSize)
               = BSkip(call.before, call.stream_offset + 4 + RegionSize)

\* C14: update_metadata called with a metadata object that is not a
\* FlacMetaData raises an error before any file is opened, read or written:
\* no I/O step comes before the rejection and the file is as it was
C14_ForeignRejected ==
    (pc = "returned" /\ call.metadata.class # "NoneType"
                     /\ ~isinstance_FlacMetaData(call.metadata)) =>
        /\ call.outcome = "raise"
        /\ call.raised = "ValueError"
        /\ call.steps = <<>>
        /\ file = call.before

\* a call with the metadata object of another format, on a file with a
\* prefix before the stream
C14_Witness ==
    /\ pc = "returned"
    /\ call.metadata.class = "ID3v2Comment"
    /\ call.raised = "ValueError"
    /\ call.stream_offset > 0

\* C21: on the full-rewrite path the file produced is the first stream_offset
\* bytes of the original, the 4-byte file identifier, the newly serialized
\* metadata and then every byte of the original behind its old metadata
\* region: the audio payload is the same in the old and the new file
C21_RewriteLayout ==
    (pc = "updated" /\ call.path = "rewrite" /\ ~call.io.fails) =>
        \A prefix \in Prefixes, region \in Regions, payload \in Payloads :
            call.before = BCatAll(<<prefix, FILE_ID, region, payload>>) =>
                /\ BLen(prefix) = call.stream_offset
                /\ file = BCatAll(<<prefix, FILE_ID, metadata_build(call.metadata), payload>>)
                /\ BSkip(file, BLen(file) - BLen(payload)) = payload

\* a rewrite of a file with bytes before the stream that changes the size of
\* the metadata region
C21_Witness ==
    /\ pc = "updated"
    /\ call.path = "rewrite"
    /\ ~call.io.fails
    /\ call.stream_offset > 0
    /\ BLen(file) # BLen(call.before)
    /\ BTake(file, call.stream_offset) = BTake(call.before, call.stream_offset)

\* C26: whenever update_metadata patches in place, after the padding
\* adjustment the size of the new metadata is the size of the metadata that
\* was on disk, the PADDING lengths add up to P - D and none is negative
C26_PatchFitsRegion ==
    (pc = "updated" /\ call.path = "patch") =>
        /\ metadata_size(call.adjusted) = RegionSize
        /\ total_padding_size(get_blocks(call.adjusted, PADDING_ID))
               = PaddingTotal - MetadataDelta
        /\ \A i \in 1..Len(call.adjusted) :
               call.adjusted[i].BLOCK_ID = PADDING_ID => call.adjusted[i].length >= 0

\* the lengths of the PADDING blocks of a container, in container order
PaddingLengths(list) ==
    LET padding_blocks == get_blocks(list, PADDING_ID)
    IN  [i \in 1..Len(padding_blocks) |-> padding_blocks[i].length]

RECURSIVE SumSeq(_)
SumSeq(q) == IF q = <<>> THEN 0 ELSE q[1] + SumSeq(Tail(q))

\* C20: on the patch-in-place path with growth D > 0 the PADDING blocks are
\* drained in container order: a block is reduced only after every earlier
\* PADDING block has reached length 0, and D bytes are removed in total; with
\* D < 0 only the first PADDING block changes, growing by exactly -D
C20_PaddingDrain ==
    (pc = "updated" /\ call.path = "patch") =>
        LET old == PaddingLengths(call.metadata)
            new == PaddingLengths(call.adjusted)
        IN  /\ Len(new) = Len(old)
            /\ MetadataDelta > 0 =>
                   /\ \A i \in 1..Len(old) :
                          /\ new[i] <= old[i]
                          /\ new[i] < old[i] => \A j \in 1..(i - 1) : new[j] = 0
                   /\ SumSeq(old) - SumSeq(new) = MetadataDelta
            /\ MetadataDelta < 0 =>
                   /\ new[1] = old[1] + (-MetadataDelta)
                   /\ \A i \in 2..Len(old) : new[i] = old[i]

\* a patch whose growth empties the first PADDING block and takes the rest
\* from the second
C20_Witness ==
    /\ pc = "updated"
    /\ call.path = "patch"
    /\ MetadataDelta > 0
    /\ Len(PaddingLengths(call.metadata)) = 2
    /\ PaddingLengths(call.metadata)[1] > 0
    /\ PaddingLengths(call.adjusted)[1] = 0
    /\ PaddingLengths(call.adjusted)[2] < PaddingLengths(call.metadata)[2]

(***************************************************************************)
(* The foreign-chunk bridge: from_wave, from_aiff, wave_header_footer and  *)
(* aiff_header_footer.  The two importers differ in the names of the       *)
(* chunks, in the byte order of the sizes and in the 8 bytes (offset and    *)
(* block size) that follow the SSND chunk header; a format record carries   *)
(* the differences.                                                         *)
(***************************************************************************)
WAVE ==
    [form |-> B(<<82, 73, 70, 70>>),                         \* b"RIFF"
     type |-> B(<<87, 65, 86, 69>>),                         \* b"WAVE"
     descriptor |-> B(<<102, 109, 116, 32>>),                \* b"fmt "
     payload |-> B(<<100, 97, 116, 97>>),                    \* b"data"
     application_id |-> ID_riff,
     little_endian |-> TRUE,
     payload_header |-> 0]

AIFF ==
    [form |-> B(<<70, 79, 82, 77>>),                         \* b"FORM"
     type |-> B(<<65, 73, 70, 70>>),                         \* b"AIFF"
     descriptor |-> B(<<67, 79, 77, 77>>),                   \* b"COMM"
     payload |-> B(<<83, 83, 78, 68>>),                      \* b"SSND"
     application_id |-> ID_aiff,
     little_endian |-> FALSE,
     payload_header |-> 8]

\* the "32u" field of the importer's reader and recorder
read_u32(fmt, bytes) == IF fmt.little_endian THEN read_le(bytes, 4) ELSE read_be(bytes, 4)

write_u32(fmt, v) == IF fmt.little_endian THEN write_le(4, v) ELSE write_be(4, v)

\* block_data.build("4b 32u", (chunk_id, chunk_size))
chunk_header(fmt, chunk_id, chunk_size) == BCat(chunk_id, write_u32(fmt, chunk_size))

PRINTABLE_ASCII == 32..126

\* frozenset(chunk_id).issubset(PRINTABLE_ASCII)
valid_chunk_id(chunk_id) ==
    \A i \in 1..BLen(chunk_id) : BByte(chunk_id, i) \in PRINTABLE_ASCII

\* the bytes a chunk's body takes: an odd body is followed by a pad byte
padded(chunk_size) == chunk_size + (chunk_size % 2)

\* the header loop.  val is [blocks, payload_size, total_size]; every
\* IOError of the reader is raised again as EncodingError
RECURSIVE header_chunks(_, _, _, _, _, _)
header_chunks(fmt, r, header_len, found, blocks, total_size) ==
    IF header_len = 0 THEN Raise("EncodingError")
    ELSE LET body(chunk_id, chunk_size, y) ==
                 IF ~y.ok THEN Raise("EncodingError")
                 ELSE header_chunks(fmt, y.rest,
                          header_len - 8 - padded(chunk_size),
                          found \/ chunk_id = fmt.descriptor,
                          Append(blocks,
                              Flac_APPLICATION(fmt.application_id,
                                  BCat(chunk_header(fmt, chunk_id, chunk_size), y.val))),
                          total_size)
             payload(chunk_id, chunk_size, y) ==
                 IF ~y.ok THEN Raise("EncodingError")
                 ELSE Ok([blocks |->
                              Append(blocks,
                                  Flac_APPLICATION(fmt.application_id,
                                      BCat(chunk_header(fmt, chunk_id, chunk_size),
                                           y.val))),
                          payload_size |-> chunk_size - fmt.payload_header,
                          total_size |-> total_size],
                         y.rest)
             chunk(h, chunk_id, chunk_size) ==
                 IF ~valid_chunk_id(chunk_id) THEN Raise("EncodingError")
                 ELSE IF chunk_id = fmt.payload
                 THEN IF header_len - 8 # fmt.payload_header
                      THEN Raise("EncodingError")
                      ELSE IF ~found THEN Raise("EncodingError")
                      ELSE payload(chunk_id, chunk_size,
                                   read_bytes(h.rest, fmt.payload_header))
                 ELSE IF chunk_id = fmt.descriptor /\ found
                 THEN Raise("EncodingError")
                 ELSE body(chunk_id, chunk_size,
                           read_bytes(h.rest, padded(chunk_size)))
             then(h) ==
                 IF ~h.ok THEN Raise("EncodingError")
                 ELSE chunk(h, BTake(h.val, 4), read_u32(fmt, BDrop(h.val, 4)))
         IN  then(read_bytes(r, 8))

\* the first try block: the 12-byte outer header, then the chunks up to the
\* header of the payload chunk
split_header(fmt, header) ==
    LET then(x) ==
            IF ~x.ok THEN Raise("EncodingError")
            ELSE IF BTake(x.val, 4) # fmt.form THEN Raise("EncodingError")
            ELSE IF BDrop(x.val, 8) # fmt.type THEN Raise("EncodingError")
            ELSE header_chunks(fmt, x.rest, BLen(header) - 12, FALSE,
                     <<Flac_APPLICATION(fmt.application_id,
                           BCatAll(<<BTake(x.val, 4),
                                     write_u32(fmt, read_u32(fmt, BTake(BDrop(x.val, 4), 4))),
                                     BDrop(x.val, 8)>>))>>,
                     read_u32(fmt, BTake(BDrop(x.val, 4), 4)) + 8)
    IN  then(read_bytes(header, 12))

\* a mutant of footer_chunk_rejected: a payload chunk in the footer is taken
\* as any other chunk
footer_chunk_rejected_id_only(fmt, chunk_id) ==
    \/ ~valid_chunk_id(chunk_id)
    \/ chunk_id = fmt.descriptor

\* the chunk ids the footer loop raises on
footer_chunk_rejected(fmt, chunk_id) ==
    \/ ~valid_chunk_id(chunk_id)
    \/ chunk_id = fmt.descriptor
    \/ chunk_id = fmt.payload

\* the footer loop.  val is the block list
RECURSIVE footer_chunks(_, _, _, _)
footer_chunks(fmt, r, footer_len, blocks) ==
    IF footer_len = 0 THEN Ok(blocks, r)
    ELSE LET body(chunk_id, chunk_size, y) ==
                 IF ~y.ok THEN Raise("EncodingError")
                 ELSE footer_chunks(fmt, y.rest,
                          footer_len - 8 - padded(chunk_size),
                          Append(blocks,
                              Flac_APPLICATION(fmt.application_id,
                                  BCat(chunk_header(fmt, chunk_id, chunk_size), y.val))))
             chunk(h, chunk_id, chunk_size) ==
                 IF footer_chunk_rejected(fmt, chunk_id) THEN Raise("EncodingError")
                 ELSE body(chunk_id, chunk_size,
                           read_bytes(h.rest, padded(chunk_size)))
             then(h) ==
                 IF ~h.ok THEN Raise("EncodingError")
                 ELSE chunk(h, BTake(h.val, 4), read_u32(fmt, BDrop(h.val, 4)))
         IN  then(read_bytes(r, 8))

\* the second try block: one pad byte is skipped after a payload of odd size
split_footer(fmt, footer, payload_size, blocks) ==
    IF payload_size % 2 = 1
    THEN IF BLen(footer) < 1 THEN Raise("EncodingError")
         ELSE footer_chunks(fmt, BDrop(footer, 1), BLen(footer) - 1, blocks)
    ELSE footer_chunks(fmt, footer, BLen(footer), blocks)

\* both try blocks.  val is [blocks, payload_size, total_size]
split_chunks(fmt, header, footer) ==
    LET tail(s, f) ==
            IF ~f.ok THEN f
            ELSE Ok([blocks |-> f.val, payload_size |-> s.payload_size,
                     total_size |-> s.total_size], <<>>)
        then(h) ==
            IF ~h.ok THEN h
            ELSE tail(h.val, split_footer(fmt, footer, h.val.payload_size, h.val.blocks))
    IN  then(split_header(fmt, header))

\* CounterPCMReader.bytes_written() once the encoder has read all the frames
bytes_written(pcmreader) ==
    pcmreader.frames * pcmreader.channels * (pcmreader.bits_per_sample \div 8)

\* audiotools.wav.pad_data and audiotools.aiff.pad_data: the PCM data takes
\* an odd number of bytes
pad_data(pcm_frames, channels, bits_per_sample) ==
    (pcm_frames * channels * (bits_per_sample \div 8)) % 2 = 1

\* the file encode_flac writes for from_pcm: STREAMINFO, the encoder's
\* VORBIS_COMMENT, padding_size=4096 bytes of PADDING, then the frames
encode_flac(pcmreader) ==
    BCatAll(<<FILE_ID,
              metadata_build(
                  <<Flac_STREAMINFO(1152, 1152, 0, 0, 44100, pcmreader.channels,
                                    pcmreader.bits_per_sample, pcmreader.frames,
                                    BRun(0, 16)),
                    Flac_VORBISCOMMENT(<<>>, STR_vendor),
                    Flac_PADDING(4096)>>),
              B(<<255, 248>>),
              BRun(1, bytes_written(pcmreader))>>)

\* a path of the file system: a file of some bytes, or no file
a_file(bytes) == [exists |-> TRUE, bytes |-> bytes]

\* cls.__unlink__(filename)
unlink(f) == [exists |-> FALSE, bytes |-> <<>>]

\* update_metadata: the file after the call
update_metadata(f, stream_offset, metadata, old_metadata, io) ==
    IF patch_eligible(metadata, old_metadata)
    THEN patch_in_place(f, stream_offset, metadata, old_metadata, io)
    ELSE full_rewrite(f, stream_offset, metadata, io)

\* a mutant of sizes_agree: the size recorded in the outermost chunk header
\* is not compared
sizes_agree_payload_only(header, footer, data_bytes_written, payload_size, total_size) ==
    data_bytes_written = payload_size

\* the two tests made after the encode
sizes_agree(header, footer, data_bytes_written, payload_size, total_size) ==
    /\ data_bytes_written = payload_size
    /\ BLen(header) + data_bytes_written + BLen(footer) = total_size

\* the bytes update_metadata has built when it reaches the body of the first
\* APPLICATION block: the file ID, the blocks before it and its block header
RECURSIVE built_before_application(_)
built_before_application(list) ==
    IF list = <<>> THEN 0
    ELSE IF list[1].BLOCK_ID = APPLICATION_ID THEN 4
    ELSE 4 + block_size(list[1]) + built_before_application(Tail(list))

\* the importer after the split.  [raised, encoded, file]: the exception
\* raised, whether from_pcm wrote the file, and what is at the path after the
\* call.  str_id is what the build makes of an application id given as the
\* str "aiff": the same four bytes, or a TypeError before or after the bytes
\* built so far were flushed.  The ids of from_wave are all bytes
from_container(fmt, header, footer, pcmreader, str_id) ==
    LET stored(encoded, metadata, blocks) ==
            IF str_id = "bytes"
            THEN [raised |-> "none", encoded |-> TRUE,
                  file |-> a_file(update_metadata(encoded, 0,
                                      add_blocks(metadata, blocks), metadata,
                                      [fails |-> FALSE, written |-> 0]))]
            ELSE IF str_id = "TypeError, nothing flushed"
            THEN [raised |-> "TypeError", encoded |-> TRUE, file |-> a_file(encoded)]
            ELSE [raised |-> "TypeError", encoded |-> TRUE,
                  file |-> a_file(update_metadata(encoded, 0,
                                      add_blocks(metadata, blocks), metadata,
                                      [fails |-> TRUE,
                                       written |-> 4 + built_before_application(
                                                           add_blocks(metadata, blocks))]))]
        checked(s, encoded) ==
            IF ~sizes_agree(header, footer, bytes_written(pcmreader),
                            s.payload_size, s.total_size)
            THEN [raised |-> "EncodingError", encoded |-> TRUE,
                  file |-> unlink(a_file(encoded))]
            ELSE stored(encoded, get_metadata(encoded, 0).val, s.blocks)
        then(s) ==
            IF ~s.ok
            THEN [raised |-> "EncodingError", encoded |-> FALSE,
                  file |-> [exists |-> FALSE, bytes |-> <<>>]]
            ELSE checked(s.val, encode_flac(pcmreader))
    IN  then(split_chunks(fmt, header, footer))

from_wave(header, pcmreader, footer) ==
    from_container(WAVE, header, footer, pcmreader, "bytes")

\* the first block from_aiff makes has the str "aiff" as its id
from_aiff(header, pcmreader, footer, str_id) ==
    from_container(AIFF, header, footer, pcmreader, str_id)

\* the loop over the APPLICATION blocks: <<header fragments, footer fragments>>
RECURSIVE collect_chunks(_, _, _, _, _)
collect_chunks(fmt, blocks, in_header, header, footer) ==
    IF blocks = <<>> THEN <<header, footer>>
    ELSE IF blocks[1].application_id # fmt.application_id
    THEN collect_chunks(fmt, Tail(blocks), in_header, header, footer)
    ELSE IF in_header
    THEN collect_chunks(fmt, Tail(blocks),
                        BTake(blocks[1].data, 4) # fmt.payload,
                        Append(header, blocks[1].data), footer)
    ELSE collect_chunks(fmt, Tail(blocks), FALSE,
                        header, Append(footer, blocks[1].data))

\* wave_header_footer and aiff_header_footer.  val is <<header, footer>>
header_footer(fmt, f) ==
    LET joined(parts) ==
            IF Len(parts[1]) # 0 \/ Len(parts[2]) # 0
            THEN Ok(<<BCatAll(parts[1]), BCatAll(parts[2])>>, <<>>)
            ELSE Raise("ValueError")
        chunks(metadata, streaminfo) ==
            joined(collect_chunks(fmt, get_blocks(metadata, APPLICATION_ID), TRUE, <<>>,
                       IF pad_data(streaminfo.total_samples, streaminfo.channels,
                                   streaminfo.bits_per_sample)
                       THEN <<B(<<0>>)>> ELSE <<>>))
        then(metadata) ==
            IF ~metadata.ok THEN metadata
            ELSE chunks(metadata.val, get_block(metadata.val, STREAMINFO_ID))
    IN  then(get_metadata(f, 0))

wave_header_footer(f) == header_footer(WAVE, f)

aiff_header_footer(f) == header_footer(AIFF, f)

(***************************************************************************)
(* SpecForeign: an import with from_wave or from_aiff, then an export with *)
(* wave_header_footer or aiff_header_footer                                *)
(***************************************************************************)
MaxHeaderItems == 3

\* what a header or a footer is made of: the format descriptor chunk, a
\* chunk of odd size with its pad byte, a chunk whose id holds a zero byte,
\* and the payload chunk
Items == {"descriptor", "list", "invalid", "payload"}

\* the bytes of an item; chunk_size is the size the payload chunk declares
item_bytes(fmt, item, chunk_size) ==
    CASE item = "descriptor" -> BCat(chunk_header(fmt, fmt.descriptor, 2), B(<<1, 0>>))
      [] item = "list" -> BCat(chunk_header(fmt, B(<<76, 73, 83, 84>>), 1), B(<<65, 9>>))
      [] item = "invalid" -> chunk_header(fmt, B(<<76, 0, 83, 84>>), 0)
      [] item = "payload" -> BCat(chunk_header(fmt, fmt.payload, chunk_size),
                                  BRun(0, fmt.payload_header))

RECURSIVE items_bytes(_, _, _)
items_bytes(fmt, items, chunk_size) ==
    IF items = <<>> THEN <<>>
    ELSE BCat(item_bytes(fmt, items[1], chunk_size),
              items_bytes(fmt, Tail(items), chunk_size))

\* a header of the given items whose outermost chunk records outer_size
header_bytes(fmt, items, chunk_size, outer_size) ==
    BCatAll(<<fmt.form, write_u32(fmt, outer_size), fmt.type,
              items_bytes(fmt, items, chunk_size)>>)

\* a footer: the pad byte, if any, and the chunks after the payload
footer_bytes(fmt, pad, items) == BCat(pad, items_bytes(fmt, items, fmt.payload_header))

\* the footers: nothing or one item after the payload
Footers == {<<>>} \cup {<<item>> : item \in Items}

\* mono readers of one frame: one byte of PCM data, and two
PCM_8 == [frames |-> 1, channels |-> 1, bits_per_sample |-> 8]
PCM_16 == [frames |-> 1, channels |-> 1, bits_per_sample |-> 16]

\* the PCM data, the size the payload chunk declares for it, the error of the
\* size recorded in the outermost chunk, and the pad byte before the footer
Cases ==
    {[pcmreader |-> PCM_8, payload_size |-> 1, size_error |-> 0, pad |-> B(<<0>>)],
     [pcmreader |-> PCM_8, payload_size |-> 1, size_error |-> 0, pad |-> B(<<7>>)],
     [pcmreader |-> PCM_8, payload_size |-> 1, size_error |-> 0, pad |-> <<>>],
     [pcmreader |-> PCM_16, payload_size |-> 2, size_error |-> 0, pad |-> <<>>],
     [pcmreader |-> PCM_16, payload_size |-> 2, size_error |-> 1, pad |-> <<>>],
     [pcmreader |-> PCM_8, payload_size |-> 2, size_error |-> 0, pad |-> <<>>]}

StrIdOutcomes == {"bytes", "TypeError, nothing flushed", "TypeError, flushed"}

InitForeign ==
    /\ pc = "start"
    /\ file = <<>>
    /\ call = [op |-> "none"]
    /\ block_list = <<>>
    /\ cleaned_blocks = <<>>
    /\ fixes_performed = <<>>
    /\ last_op = NoOp
    /\ stream = <<>>
    /\ parsed = <<>>

\* an import of the header and footer made of the given items
Import(fmt, op, str_ids) ==
    /\ pc = "start"
    /\ \E items \in SeqsUpTo(Items, MaxHeaderItems),
          tail \in Footers, case \in Cases, str_id \in str_ids :
           LET done(header, footer, result) ==
                   /\ file' = result.file.bytes
                   /\ call' = [op |-> op, fmt |-> fmt, header |-> header,
                               footer |-> footer, items |-> items, tail |-> tail,
                               pad |-> case.pad, pcmreader |-> case.pcmreader,
                               chunk_size |-> case.payload_size + fmt.payload_header,
                               size_error |-> case.size_error,
                               raised |-> result.raised,
                               encoded |-> result.encoded,
                               exists |-> result.file.exists]
               run(header, footer) ==
                   done(header, footer,
                        from_container(fmt, header, footer, case.pcmreader, str_id))
               sized(footer, items_len) ==
                   run(header_bytes(fmt, items,
                           case.payload_size + fmt.payload_header,
                           4 + items_len + bytes_written(case.pcmreader) + BLen(footer)
                               + case.size_error),
                       footer)
           IN  sized(footer_bytes(fmt, case.pad, tail),
                     BLen(items_bytes(fmt, items,
                                      case.payload_size + fmt.payload_header)))
    /\ pc' = "imported"
    /\ UNCHANGED <<block_list, cleaned_blocks, fixes_performed, last_op, stream, parsed>>

FromWave == Import(WAVE, "from_wave", {"bytes"})

FromAiff == Import(AIFF, "from_aiff", StrIdOutcomes)

\* an export from the object the import returned
Export(fmt, op) ==
    /\ pc = "imported"
    /\ call.raised = "none"
    /\ pc' = "exported"
    /\ parsed' = header_footer(fmt, file)
    /\ last_op' = [op |-> op]
    /\ UNCHANGED <<block_list, cleaned_blocks, fixes_performed, stream, file, call>>

WaveHeaderFooter == Export(WAVE, "wave_header_footer")

AiffHeaderFooter == Export(AIFF, "aiff_header_footer")

NextForeign == FromWave \/ FromAiff \/ WaveHeaderFooter \/ AiffHeaderFooter

SpecForeign == InitForeign /\ [][NextForeign]_vars

\* the export that belongs to the import made
ExportedBack ==
    /\ pc = "exported"
    /\ call.raised = "none"
    /\ \/ call.op = "from_wave" /\ last_op.op = "wave_header_footer"
       \/ call.op = "from_aiff" /\ last_op.op = "aiff_header_footer"

\* C7: for a header and a footer the importer accepted and stored, the
\* matching export returns exactly that header and that footer
C7_RoundTrip ==
    ExportedBack => parsed.ok /\ parsed.val = <<call.header, call.footer>>

ItemCount(items, item) == Len(SelectSeq(items, LAMBDA i : i = item))

\* the payload chunk comes before any format descriptor chunk
PayloadBeforeDescriptor(items) ==
    \E i \in 1..Len(items) :
        /\ items[i] = "payload"
        /\ \A j \in 1..(i - 1) : items[j] # "descriptor"

\* the five defects of a header and footer
Malformed ==
    \/ ItemCount(call.items, "invalid") > 0 \/ ItemCount(call.tail, "invalid") > 0
    \/ ItemCount(call.items, "descriptor") > 1 \/ ItemCount(call.tail, "descriptor") > 0
    \/ ItemCount(call.tail, "payload") > 0
    \/ PayloadBeforeDescriptor(call.items)
    \/ ItemCount(call.items, "payload") = 0

\* C8: an import of a header or footer with a chunk id outside the printable
\* set, a second format descriptor chunk in the header or one in the footer,
\* a payload chunk in the footer, a payload chunk before the format
\* descriptor, or a header without payload chunk fails with an encoding
\* error, and nothing is written
C8_SplitRejects ==
    (pc = "imported" /\ Malformed) =>
        /\ call.raised = "EncodingError"
        /\ ~call.encoded
        /\ ~call.exists

\* an import rejected for the payload chunk in its footer alone: the header
\* is well formed and the pad byte is where the payload's size wants it
C8_Witness ==
    /\ pc = "imported"
    /\ call.items = <<"descriptor", "list", "payload">>
    /\ call.tail = <<"payload">>
    /\ call.pad = B(<<0>>)
    /\ call.raised = "EncodingError"

\* the sizes of a call disagree: the outermost chunk's, or the payload's
\* when declared_payload is the size taken as declared for the payload
SizesDisagree(declared_payload) ==
    \/ BLen(call.header) + bytes_written(call.pcmreader) + BLen(call.footer)
           # read_u32(call.fmt, BTake(BDrop(call.header, 4), 4)) + 8
    \/ bytes_written(call.pcmreader) # declared_payload

\* C9 as stated: when header + payload + footer is not the outermost size
\* plus 8, or the payload encoded is not the payload chunk's declared size,
\* the import fails with an encoding error and no output file is left
C9_Original ==
    (pc = "imported" /\ SizesDisagree(call.chunk_size)) =>
        /\ call.raised = "EncodingError"
        /\ ~call.exists

\* C9 amended: the same, the payload of from_aiff being compared with the
\* declared size of the SSND chunk less the 8 bytes of offset and block size
\* the header carries; a file the encoder wrote is removed
C9_Amended ==
    (pc = "imported" /\ SizesDisagree(call.chunk_size - call.fmt.payload_header)) =>
        /\ call.raised = "EncodingError"
        /\ ~call.exists
        /\ split_chunks(call.fmt, call.header, call.footer).ok => call.encoded

\* an import whose split succeeded and whose encoded file was removed for
\* the size recorded in the outermost chunk
C9_Witness ==
    /\ pc = "imported"
    /\ call.size_error = 1
    /\ call.encoded
    /\ ~call.exists
    /\ call.raised = "EncodingError"

(***************************************************************************)
(* SpecReserved: FlacMetaData.parse and OggFlacMetaData.parse on a stream  *)
(* in which a header of a reserved or invalid block type follows some      *)
(* well-formed blocks                                                      *)
(***************************************************************************)
MaxBodyLen == 2

\* the block types put into the header under test: PADDING, for contrast,
\* and reserved and invalid ones
HeaderTypes == {1, 7, 64, 126, 127}

LeadingBlocks == {<<>>, <<SI_a>>, <<SI_a, VC_a>>, <<SI_b, APP_a>>}

\* blocks with their headers, none flagged as the last
RECURSIVE build_open(_)
build_open(blocks) ==
    IF blocks = <<>> THEN <<>>
    ELSE BCatAll(<<block_header(0, blocks[1].BLOCK_ID, block_size(blocks[1])),
                   block_build(blocks[1]),
                   build_open(Tail(blocks))>>)

\* the bytes that follow the header under test: a body of the length the
\* header gives and, if any, one more block
TrailingBlocks == {<<>>, <<PAD_b>>}

BodyOf(in) == BRun(170, in.length)

HeaderOf(in) ==
    block_header(IF in.trailing = <<>> THEN in.last ELSE 0, in.type, in.length)

NativeStream(in) ==
    BCatAll(<<build_open(in.leading), HeaderOf(in), BodyOf(in),
              metadata_build(in.trailing)>>)

\* the same blocks as Ogg packets; the first packet carries a STREAMINFO
OggPackets(in) ==
    LET others == SelectSeq(in.leading, LAMBDA b : b.BLOCK_ID # STREAMINFO_ID)
    IN  <<ogg_streaminfo_packet(SI_a, Len(others) + 1 + Len(in.trailing))>>
            \o [i \in 1..Len(others) |->
                   BCat(block_header(0, others[i].BLOCK_ID, block_size(others[i])),
                        block_build(others[i]))]
            \o <<BCat(HeaderOf(in), BodyOf(in))>>
            \o [i \in 1..Len(in.trailing) |-> ogg_block_packet(in.trailing, i)]

InitReserved ==
    /\ pc = "stream"
    /\ \E leading \in LeadingBlocks, type \in HeaderTypes, last \in {0, 1},
          length \in 0..MaxBodyLen, trailing \in TrailingBlocks :
           call = [op |-> "input", leading |-> leading, type |-> type,
                   last |-> last, length |-> length, trailing |-> trailing]
    /\ stream = [native |-> NativeStream(call), ogg |-> OggPackets(call)]
    /\ parsed = <<>>
    /\ block_list = <<>>
    /\ cleaned_blocks = <<>>
    /\ fixes_performed = <<>>
    /\ last_op = NoOp
    /\ file = <<>>

ParseNative ==
    /\ pc = "stream"
    /\ pc' = "native parsed"
    /\ parsed' = metadata_parse(stream.native)
    /\ last_op' = [op |-> "parse"]
    /\ UNCHANGED <<block_list, cleaned_blocks, fixes_performed, stream, file, call>>

ParseOggPackets ==
    /\ pc = "stream"
    /\ pc' = "ogg parsed"
    /\ parsed' = OggFlacMetaData_parse(stream.ogg)
    /\ last_op' = [op |-> "ogg parse"]
    /\ UNCHANGED <<block_list, cleaned_blocks, fixes_performed, stream, file, call>>

NextReserved == ParseNative \/ ParseOggPackets

SpecReserved == InitReserved /\ [][NextReserved]_vars

\* the exception the parsers raise for a block type
ReservedError(type) ==
    IF type = 127 THEN "ValueError: invalid block" ELSE "ValueError: reserved block"

\* C17: both parsers fail with an error and return no container as soon as
\* a header of a type in 7..126 or of type 127 is read, and consume nothing
\* behind that header: the native reader stands right behind the header, and
\* no Ogg packet behind the one with the header is read
C17_ReservedFails ==
    (pc \in {"native parsed", "ogg parsed"} /\ call.type \in 7..127) =>
        /\ ~parsed.ok
        /\ parsed.val = <<>>
        /\ parsed.err = ReservedError(call.type)
        /\ pc = "native parsed" =>
               parsed.rest = BCat(BodyOf(call), metadata_build(call.trailing))
        /\ pc = "ogg parsed" =>
               /\ parsed.rest
                      = [i \in 1..Len(call.trailing) |-> ogg_block_packet(call.trailing, i)]
               /\ stream.ogg[Len(stream.ogg) - Len(parsed.rest)]
                      = BCat(HeaderOf(call), BodyOf(call))

\* a native parse that met a reserved type behind two well-formed blocks and
\* before a further block
C17_Witness ==
    /\ pc = "native parsed"
    /\ call.type = 126
    /\ Len(call.leading) = 2
    /\ call.trailing # <<>>
    /\ ~parsed.ok
(***************************************************************************)
(* FlacAudio.seektable and sizes_to_offsets.  sizes is the list of         *)
(* (frame_size, frame_frames) pairs the decoder reports, one per frame.    *)
(***************************************************************************)
\* sizes_to_offsets(): (cumulative_size, frame_frames) pairs
RECURSIVE sizes_to_offsets_from(_, _)
sizes_to_offsets_from(sizes, current_position) ==
    IF sizes = <<>> THEN <<>>
    ELSE <<(<<current_position, sizes[1][2]>>)>>
             \o sizes_to_offsets_from(Tail(sizes), current_position + sizes[1][1])

\* a mutant of sizes_to_offsets: the position is advanced before it is stored
sizes_to_offsets_after(sizes) ==
    [i \in 1..Len(sizes) |-> <<SumSeq([j \in 1..i |-> sizes[j][1]]), sizes[i][2]>>]

sizes_to_offsets(sizes) == sizes_to_offsets_from(sizes, 0)

\* sample_offsets of seektable(): the first sample of every frame
RECURSIVE sample_offsets_from(_, _)
sample_offsets_from(offsets, total_samples) ==
    IF offsets = <<>> THEN <<>>
    ELSE <<total_samples>>
             \o sample_offsets_from(Tail(offsets), total_samples + offsets[1][2])

\* bisect_right(a, x) for a sorted list: the number of elements <= x
bisect_right(a, x) == Cardinality({i \in 1..Len(a) : a[i] <= x})

\* all_frames[key]: the dict keeps the last frame stored under a key
all_frames(offsets, sample_offsets, key) ==
    offsets[CHOOSE i \in 1..Len(offsets) :
                /\ sample_offsets[i] = key
                /\ \A j \in 1..Len(offsets) : sample_offsets[j] = key => j <= i]

\* range(0, stop, step) as a sequence
range(stop, step) == [k \in 1..((stop + step - 1) \div step) |-> (k - 1) * step]

\* a mutant of seektable: the seek point is put at the sample asked for
seektable_unaligned(offsets, seekpoint_interval, total_frames) ==
    LET sample_offsets == sample_offsets_from(offsets, 0)
        point(pcm_frame) ==
            LET flac_frame == bisect_right(sample_offsets, pcm_frame)
            IN  <<pcm_frame,
                  all_frames(offsets, sample_offsets, sample_offsets[flac_frame])[1],
                  all_frames(offsets, sample_offsets, sample_offsets[flac_frame])[2]>>
    IN  Flac_SEEKTABLE([k \in 1..Len(range(total_frames, seekpoint_interval)) |->
                           point(range(total_frames, seekpoint_interval)[k])])

\* FlacAudio.seektable(offsets, seekpoint_interval) of a file of
\* total_frames PCM frames
seektable(offsets, seekpoint_interval, total_frames) ==
    LET sample_offsets == sample_offsets_from(offsets, 0)
        point(pcm_frame) ==
            LET flac_frame == bisect_right(sample_offsets, pcm_frame)
            IN  <<sample_offsets[flac_frame],
                  all_frames(offsets, sample_offsets, sample_offsets[flac_frame])[1],
                  all_frames(offsets, sample_offsets, sample_offsets[flac_frame])[2]>>
    IN  Flac_SEEKTABLE([k \in 1..Len(range(total_frames, seekpoint_interval)) |->
                           point(range(total_frames, seekpoint_interval)[k])])

(***************************************************************************)
(* SpecSeektable: one call of seektable() on a file of up to MaxFrames     *)
(* frames; the file's total_frames is the sum of its frames' samples       *)
(***************************************************************************)
MaxFrames == 4
MaxInterval == 3

FrameKinds == {<<10, 4>>, <<10, 1>>, <<7, 4>>}

RECURSIVE TotalSamples(_)
TotalSamples(sizes) == IF sizes = <<>> THEN 0 ELSE sizes[1][2] + TotalSamples(Tail(sizes))

InitSeektable ==
    /\ pc = "flac"
    /\ \E sizes \in SeqsUpTo(FrameKinds, MaxFrames) \ {<<>>},
          seekpoint_interval \in 1..MaxInterval :
           call = [op |-> "input", sizes |-> sizes,
                   seekpoint_interval |-> seekpoint_interval,
                   total_frames |-> TotalSamples(sizes)]
    /\ block_list = <<>>
    /\ cleaned_blocks = <<>>
    /\ fixes_performed = <<>>
    /\ last_op = NoOp
    /\ stream = <<>>
    /\ parsed = <<>>
    /\ file = <<>>

Seektable ==
    /\ pc = "flac"
    /\ pc' = "seektable"
    /\ block_list' = <<seektable(sizes_to_offsets(call.sizes), call.seekpoint_interval,
                                  call.total_frames)>>
    /\ last_op' = [op |-> "seektable"]
    /\ UNCHANGED <<cleaned_blocks, fixes_performed, stream, parsed, file, call>>

NextSeektable == Seektable

SpecSeektable == InitSeektable /\ [][NextSeektable]_vars

\* four frames of 10 bytes and 4 samples each, seek points asked for every
\* 2 samples
FourFrames ==
    /\ call.sizes = << <<10, 4>>, <<10, 4>>, <<10, 4>>, <<10, 4>> >>
    /\ call.seekpoint_interval = 2

\* the sample offsets of the seek points of the table built
PointSamples ==
    {block_list[1].seekpoints[k][1] : k \in 1..Len(block_list[1].seekpoints)}

\* C15 as stated: for frames of sizes [10,10,10,10] with 4 samples each and a
\* spacing of 2 samples every seek point has a sample offset in {0,4,8}
C15_Original ==
    (pc = "seektable" /\ FourFrames) => PointSamples \subseteq {0, 4, 8}

\* the first samples and byte offsets of the frames
FrameStarts(sizes) ==
    {<<TotalSamples(SubSeq(sizes, 1, i - 1)),
       SumSeq([j \in 1..(i - 1) |-> sizes[j][1]]),
       sizes[i][2]>> : i \in 1..Len(sizes)}

\* C15 amended: every seek point is the first sample of a frame, with that
\* frame's byte offset and sample count, and it is the frame that holds the
\* multiple of the spacing the point was made for; for frames of sizes
\* [10,10,10,10] with 4 samples each and a spacing of 2 the sample offsets
\* are 0, 4, 8 and 12, two points each, and never 2, 6, 10 or 14
C15_Amended ==
    pc = "seektable" =>
        LET seekpoints == block_list[1].seekpoints
        IN  /\ Len(seekpoints) = Len(range(call.total_frames, call.seekpoint_interval))
            /\ \A k \in 1..Len(seekpoints) :
                   /\ seekpoints[k] \in FrameStarts(call.sizes)
                   /\ seekpoints[k][1] <= (k - 1) * call.seekpoint_interval
                   /\ (k - 1) * call.seekpoint_interval < seekpoints[k][1] + seekpoints[k][3]
            /\ FourFrames =>
                   /\ PointSamples = {0, 4, 8, 12}
                   /\ \A s \in PointSamples :
                          Cardinality({k \in 1..Len(seekpoints) : seekpoints[k][1] = s}) = 2

\* the table built for the four frames holds a point at sample 12
C15_Witness ==
    /\ pc = "seektable"
    /\ FourFrames
    /\ 12 \in PointSamples
    /\ Len(block_list[1].seekpoints) = 8

\* frame i of the file starts at this sample
FrameSample(sizes, i) == SumSeq([j \in 1..(i - 1) |-> sizes[j][2]])

\* frame i of the file starts at this byte of the frame data
FrameByte(sizes, i) == SumSeq([j \in 1..(i - 1) |-> sizes[j][1]])

\* C22: every seek point (s, b, c) describes a frame of the file: s is the
\* number of samples before that frame, b the number of bytes before it and c
\* its sample count; the frame chosen for a requested position p inside the
\* audio holds it (s <= p < s + c), and p itself is recorded only when it is
\* the first sample of a frame
C22_SeekPointsAreFrames ==
    pc = "seektable" =>
        \A k \in 1..Len(block_list[1].seekpoints) :
            LET point == block_list[1].seekpoints[k]
                requested == (k - 1) * call.seekpoint_interval
            IN  /\ requested < call.total_frames
                /\ \E i \in 1..Len(call.sizes) :
                       /\ point[1] = FrameSample(call.sizes, i)
                       /\ point[2] = FrameByte(call.sizes, i)
                       /\ point[3] = call.sizes[i][2]
                       /\ point[1] <= requested
                       /\ requested < point[1] + point[3]
                /\ point[1] = requested =>
                       \E i \in 1..Len(call.sizes) : FrameSample(call.sizes, i) = requested

\* a table over frames of different sizes with a point for a position in the
\* middle of a later frame
C22_Witness ==
    /\ pc = "seektable"
    /\ \E i, j \in 1..Len(call.sizes) : call.sizes[i][1] # call.sizes[j][1]
    /\ \E k \in 1..Len(block_list[1].seekpoints) :
           /\ block_list[1].seekpoints[k][1] > 0
           /\ block_list[1].seekpoints[k][2] > 0
           /\ block_list[1].seekpoints[k][1] < (k - 1) * call.seekpoint_interval
(***************************************************************************)
(* Flac_CUESHEET.track_length.  A Fraction is the pair <<numerator,        *)
(* denominator>> in lowest terms with a positive denominator, as the       *)
(* fractions module keeps it.                                              *)
(***************************************************************************)
RECURSIVE GCD(_, _)
GCD(a, b) == IF b = 0 THEN a ELSE GCD(b, a % b)

Abs(n) == IF n < 0 THEN -n ELSE n

\* Fraction(numerator, denominator) for a positive denominator
Fraction(numerator, denominator) ==
    LET g == GCD(Abs(numerator), denominator)
    IN  <<(IF numerator < 0 THEN -(Abs(numerator) \div g) ELSE numerator \div g),
          denominator \div g>>

\* Fraction.__sub__
FractionSub(x, y) ==
    LET l == (x[2] \div GCD(x[2], y[2])) * y[2]
    IN  Fraction(x[1] * (l \div x[2]) - y[1] * (l \div y[2]), l)

\* a mutant of Flac_CUESHEET_index_offset: the offset within the track only
Flac_CUESHEET_index_offset_in_track(index) == Fraction(index.offset, index.sample_rate)

\* Flac_CUESHEET_index.offset(): seconds from the start of the stream
Flac_CUESHEET_index_offset(index) ==
    Fraction(index.track_offset + index.offset, index.sample_rate)

\* Sheet.track_numbers(): the numbers of the tracks, the lead-out left out
track_numbers(sheet) ==
    {sheet.tracks[i].number : i \in 1..(Len(sheet.tracks) - 1)}

\* Sheet.track(track_number): the first track of that number
track(sheet, track_number) ==
    sheet.tracks[CHOOSE i \in 1..(Len(sheet.tracks) - 1) :
                    /\ sheet.tracks[i].number = track_number
                    /\ \A j \in 1..(i - 1) : sheet.tracks[j].number # track_number]

has_index(sheet_track, index_number) ==
    \E i \in 1..Len(sheet_track.index_points) :
        sheet_track.index_points[i].number = index_number

\* SheetTrack.index(index_number): the first index point of that number
index(sheet_track, index_number) ==
    sheet_track.index_points[CHOOSE i \in 1..Len(sheet_track.index_points) :
        /\ sheet_track.index_points[i].number = index_number
        /\ \A j \in 1..(i - 1) : sheet_track.index_points[j].number # index_number]

\* Flac_CUESHEET.track_length(track_number): the exception raised and the
\* Fraction returned
track_length(sheet, track_number) ==
    IF track_number \notin track_numbers(sheet)
    THEN [raised |-> "KeyError", length |-> <<>>]
    ELSE IF ~has_index(track(sheet, track_number), 1)
    THEN [raised |-> "KeyError", length |-> <<>>]
    ELSE IF (track_number + 1) \in track_numbers(sheet)
    THEN IF ~has_index(track(sheet, track_number + 1), 1)
         THEN [raised |-> "KeyError", length |-> <<>>]
         ELSE [raised |-> "none",
               length |-> FractionSub(
                   Flac_CUESHEET_index_offset(index(track(sheet, track_number + 1), 1)),
                   Flac_CUESHEET_index_offset(index(track(sheet, track_number), 1)))]
    ELSE [raised |-> "none",
          length |-> FractionSub(
              Fraction(sheet.tracks[Len(sheet.tracks)].offset,
                       index(track(sheet, track_number), 1).sample_rate),
              Flac_CUESHEET_index_offset(index(track(sheet, track_number), 1)))]

(***************************************************************************)
(* SpecCuesheet: track_length asked of a cuesheet of up to MaxTracks       *)
(* tracks and a lead-out track                                             *)
(***************************************************************************)
MaxTracks == 2

SampleRates == {44100, 48000}

TrackOffsets == {0, 22050, 44100, 66150}

LeadOutOffsets == {88200, 132300}

\* a track with a pre-gap index 0 and, pregap samples later, its index 1
SheetTrackAt(offset, number, pregap, sample_rate) ==
    Flac_CUESHEET_track(offset, number, BRun(0, 12), 0, 0,
        IF pregap = 0
        THEN <<Flac_CUESHEET_index(offset, 0, 1, sample_rate)>>
        ELSE <<Flac_CUESHEET_index(offset, 0, 0, sample_rate),
               Flac_CUESHEET_index(offset, pregap, 1, sample_rate)>>)

\* the cuesheets: tracks numbered from 1 at the given offsets, then the
\* lead-out track
Sheets ==
    {Flac_CUESHEET(BRun(0, 128), 88200, 1,
         [i \in 1..Len(offsets) |->
             SheetTrackAt(offsets[i], i, IF i = Len(offsets) THEN pregap ELSE 0, sample_rate)]
             \o <<Flac_CUESHEET_track(lead_out, 170, BRun(0, 12), 0, 0, <<>>)>>) :
       offsets \in SeqsUpTo(TrackOffsets, MaxTracks) \ {<<>>},
       pregap \in {0, 11025}, sample_rate \in SampleRates, lead_out \in LeadOutOffsets}

InitCuesheet ==
    /\ pc = "sheet"
    /\ block_list \in {<<sheet>> : sheet \in Sheets}
    /\ call = [op |-> "none"]
    /\ cleaned_blocks = <<>>
    /\ fixes_performed = <<>>
    /\ last_op = NoOp
    /\ stream = <<>>
    /\ parsed = <<>>
    /\ file = <<>>

TrackLength ==
    /\ pc = "sheet"
    /\ \E track_number \in 1..(MaxTracks + 1) :
           call' = [op |-> "track_length", track_number |-> track_number,
                    raised |-> track_length(block_list[1], track_number).raised,
                    length |-> track_length(block_list[1], track_number).length]
    /\ pc' = "length"
    /\ UNCHANGED <<block_list, cleaned_blocks, fixes_performed, last_op, stream, parsed, file>>

NextCuesheet == TrackLength

SpecCuesheet == InitCuesheet /\ [][NextCuesheet]_vars

\* the sample at which index 1 of the track of a number stands
IndexOneSample(sheet, number) ==
    track(sheet, number).offset + index(track(sheet, number), 1).offset

\* the sample rate the indexes of the sheet carry
RateOf(sheet) == sheet.tracks[1].index_points[1].sample_rate

block_copy(block) ==
    CASE block.BLOCK_ID = STREAMINFO_ID ->
            Flac_STREAMINFO(block.minimum_block_size, block.maximum_block_size,
                            block.minimum_frame_size, block.maximum_frame_size,
                            block.sample_rate, block.channels, block.bits_per_sample,
                            block.total_samples, block.md5sum)
      [] block.BLOCK_ID = PADDING_ID -> Flac_PADDING(block.length)
      [] block.BLOCK_ID = APPLICATION_ID ->
            Flac_APPLICATION(block.application_id, block.data)
      [] block.BLOCK_ID = SEEKTABLE_ID -> Flac_SEEKTABLE(block.seekpoints)
      [] block.BLOCK_ID = VORBISCOMMENT_ID ->
            Flac_VORBISCOMMENT(block.comment_strings, block.vendor_string)
      [] block.BLOCK_ID = CUESHEET_ID ->
            Flac_CUESHEET(block.catalog_number, block.lead_in_samples, block.is_cdda,
                [t \in 1..Len(block.tracks) |->
                    Flac_CUESHEET_track(block.tracks[t].offset, block.tracks[t].number,
                        block.tracks[t].ISRC, block.tracks[t].track_type,
                        block.tracks[t].pre_emphasis,
                        [i \in 1..Len(block.tracks[t].index_points) |->
                            Flac_CUESHEET_index(
                                block.tracks[t].index_points[i].track_offset,
                                block.tracks[t].index_points[i].offset,
                                block.tracks[t].index_points[i].number,
                                block.tracks[t].index_points[i].sample_rate)])])
      [] block.BLOCK_ID = PICTURE_ID ->
            Flac_PICTURE(block.picture_type, block.mime_type, block.description,
                         block.width, block.height, block.color_depth,
                         block.color_count, block.data)

\* the key of a comment string: the code points before the first "="
\* (<<>> for a string without "=")
comment_key(comment) ==
    LET eqs == {i \in 1..Len(comment) : comment[i] = 61}
    IN  IF eqs = {} THEN <<>>
        ELSE SubSeq(comment, 1, (CHOOSE i \in eqs : \A j \in eqs : i <= j) - 1)

\* the comment strings of a key, in their order
comment_values(vorbis_comment, key) ==
    SelectSeq(vorbis_comment.comment_strings, LAMBDA c : comment_key(c) = key)

\* the key-by-key intersection of two VORBIS_COMMENT blocks: a key of the
\* first is kept when the second has the same values for it
Flac_VORBISCOMMENT_intersection(block, other_block) ==
    Flac_VORBISCOMMENT(
        SelectSeq(block.comment_strings,
                  LAMBDA c : /\ comment_key(c) # <<>>
                             /\ comment_values(block, comment_key(c))
                                    = comment_values(other_block, comment_key(c))),
        block.vendor_string)

\* block_present() of intersection()
block_present(block, metadata) ==
    \E i \in 1..Len(get_blocks(metadata, block.BLOCK_ID)) :
        BlockEq(block, get_blocks(metadata, block.BLOCK_ID)[i])

\* a mutant of intersection: the VORBIS_COMMENT block is kept or dropped as
\* a whole, like every other block
RECURSIVE intersection_whole_blocks(_, _)
intersection_whole_blocks(list, metadata) ==
    IF list = <<>> THEN <<>>
    ELSE (IF block_present(list[1], metadata) THEN <<block_copy(list[1])>> ELSE <<>>)
             \o intersection_whole_blocks(Tail(list), metadata)

\* FlacMetaData.intersection(metadata) for a FlacMetaData argument: the
\* blocks of the container returned
RECURSIVE intersection(_, _)
intersection(list, metadata) ==
    IF list = <<>> THEN <<>>
    ELSE (IF list[1].BLOCK_ID = VORBISCOMMENT_ID /\ has_block(metadata, list[1].BLOCK_ID)
          THEN <<Flac_VORBISCOMMENT_intersection(
                     list[1], get_block(metadata, list[1].BLOCK_ID))>>
          ELSE IF block_present(list[1], metadata)
          THEN <<block_copy(list[1])>>
          ELSE <<>>)
             \o intersection(Tail(list), metadata)

(***************************************************************************)
(* SpecIntersect: A.intersection(B) for two containers of up to            *)
(* MaxIntersectLen blocks                                                  *)
(***************************************************************************)
MaxIntersectLen == 2

\* CS_a with another sample rate in its index: equal to CS_a by __eq__
CS_a48 ==
    [CS_a EXCEPT !.tracks[1].index_points[1].sample_rate = 48000]

VC_d == Flac_VORBISCOMMENT(<<STR_artist, STR_title>>, <<>>)

IntersectPool == {SI_a, SI_b, VC_a, VC_c, VC_d, CS_a, CS_a48}

InitIntersect ==
    /\ pc = "containers"
    /\ block_list \in SeqsUpTo(IntersectPool, MaxIntersectLen)
    /\ \E metadata \in SeqsUpTo(IntersectPool, MaxIntersectLen) :
           call = [op |-> "none", metadata |-> metadata]
    /\ cleaned_blocks = <<>>
    /\ fixes_performed = <<>>
    /\ last_op = NoOp
    /\ stream = <<>>
    /\ parsed = <<>>
    /\ file = <<>>

Intersection ==
    /\ pc = "containers"
    /\ pc' = "intersected"
    /\ call' = [op |-> "intersection", metadata |-> call.metadata,
                result |-> intersection(block_list, call.metadata)]
    /\ UNCHANGED <<block_list, cleaned_blocks, fixes_performed, last_op, stream, parsed, file>>

NextIntersect == Intersection

SpecIntersect == InitIntersect /\ [][NextIntersect]_vars

\* theirs holds a block of the type of a that is equal to a
HoldsEqual(a, theirs) ==
    \E j \in 1..Len(theirs) : theirs[j].BLOCK_ID = a.BLOCK_ID /\ BlockEq(a, theirs[j])

\* the blocks of ours that have a counterpart in theirs, in their order: a
\* tag block when theirs has a tag block, any other block when theirs holds
\* an equal one; each tag block stands for its intersection with the first
\* tag block of theirs
Matching(ours, theirs) ==
    LET indexes == [p \in 1..Len(ours) |-> p]
        stays(p) == IF ours[p].BLOCK_ID = VORBISCOMMENT_ID
                    THEN has_block(theirs, VORBISCOMMENT_ID)
                    ELSE HoldsEqual(ours[p], theirs)
        kept == SelectSeq(indexes, stays)
    IN  [n \in 1..Len(kept) |->
            IF ours[kept[n]].BLOCK_ID = VORBISCOMMENT_ID
            THEN Flac_VORBISCOMMENT_intersection(
                     ours[kept[n]],
                     theirs[CHOOSE j \in 1..Len(theirs) :
                          /\ theirs[j].BLOCK_ID = VORBISCOMMENT_ID
                          /\ \A k \in 1..(j - 1) : theirs[k].BLOCK_ID # VORBISCOMMENT_ID])
            ELSE ours[kept[n]]]

NonTag(list) == SelectSeq(list, LAMBDA b : b.BLOCK_ID # VORBISCOMMENT_ID)

\* C19: A.intersection(B) holds, in A's order, exactly the non-tag blocks of
\* A for which B holds an equal block of the same type; when B has a tag
\* block, a tag block of A is not compared as a whole but replaced, in its
\* place, by its key-by-key intersection with the first tag block of B
C19_Intersection ==
    pc = "intersected" =>
        /\ NonTag(call.result) = NonTag(Matching(block_list, call.metadata))
        /\ has_block(call.metadata, VORBISCOMMENT_ID) =>
               call.result = Matching(block_list, call.metadata)

\* an intersection that keeps a cuesheet and narrows a tag block that is
\* not equal to the tag block of B
C19_Witness ==
    /\ pc = "intersected"
    /\ Len(block_list) = 2
    /\ block_list[1].BLOCK_ID = CUESHEET_ID
    /\ block_list[2] = VC_a
    /\ has_block(call.metadata, VORBISCOMMENT_ID)
    /\ get_block(call.metadata, VORBISCOMMENT_ID) = VC_c
    /\ Len(call.result) = 2
    /\ call.result[2] = VC_c
(***************************************************************************)
(* SpecSeekClean: Flac_SEEKTABLE.clean() on a table of up to MaxPoints     *)
(* seek points, as parse() may have read them from a file: zero-sample     *)
(* points, repeated points, points out of order and points that differ in  *)
(* their sample count only                                                 *)
(***************************************************************************)
MaxPoints == 3

SeekPoints == {<<0, 0, 4>>, <<0, 0, 5>>, <<4, 10, 4>>, <<4, 10, 0>>, <<8, 5, 4>>}

InitSeekClean ==
    /\ pc = "table"
    /\ \E seekpoints \in SeqsUpTo(SeekPoints, MaxPoints) :
           block_list = <<Flac_SEEKTABLE(seekpoints)>>
    /\ cleaned_blocks = <<>>
    /\ fixes_performed = <<>>
    /\ last_op = NoOp
    /\ stream = <<>>
    /\ parsed = <<>>
    /\ file = <<>>
    /\ call = <<>>

SeektableClean ==
    /\ pc = "table"
    /\ pc' = "table cleaned"
    /\ cleaned_blocks' = <<Flac_SEEKTABLE_clean(block_list[1]).block>>
    /\ fixes_performed' = Flac_SEEKTABLE_clean(block_list[1]).fixes
    /\ last_op' = [op |-> "clean"]
    /\ UNCHANGED <<block_list, stream, parsed, file, call>>

NextSeekClean == SeektableClean

SpecSeekClean == InitSeekClean /\ [][NextSeekClean]_vars

\* the (sample offset, byte offset) pair of one point comes before the other's
PairLess(p, q) == p[1] < q[1] \/ (p[1] = q[1] /\ p[2] < q[2])

\* C23: clean() returns the distinct seek points of the input that have a
\* non-zero sample count, in strictly ascending order of (sample offset, byte
\* offset), and the fix list is empty exactly when the points returned are
\* the points of the input
C23_CleanedTable ==
    pc = "table cleaned" =>
        LET input == block_list[1].seekpoints
            output == cleaned_blocks[1].seekpoints
        IN  /\ {output[i] : i \in 1..Len(output)}
                   = {input[i] : i \in 1..Len(input)} \ {p \in SeekPoints : p[3] = 0}
            /\ \A i \in 1..Len(output) : \A j \in 1..Len(output) :
                   i < j => PairLess(output[i], output[j])
            /\ (fixes_performed = <<>>) <=> (output = input)
(***************************************************************************)
(* SpecAddBlock: add_block() called up to MaxAdds times on a container     *)
(* whose blocks are in preferred order, the empty one among them           *)
(***************************************************************************)
MaxAdds == 2

AddPool == {SI_a, ST_a, CS_a, VC_a, PIC_a, PIC_b, APP_a, PAD_a, PAD_b}

\* the blocks of the list are in the preferred order of their types
InPreferredOrder(list) ==
    \A i \in 1..Len(list) : \A j \in 1..Len(list) :
        i < j => OrderIndex(list[i].BLOCK_ID) <= OrderIndex(list[j].BLOCK_ID)

InitAddBlock ==
    /\ pc = "container"
    /\ block_list \in {list \in SeqsUpTo(AddPool, InitContainerLen) : InPreferredOrder(list)}
    /\ call = [op |-> "add_block", initial |-> block_list, added |-> <<>>]
    /\ cleaned_blocks = <<>>
    /\ fixes_performed = <<>>
    /\ last_op = NoOp
    /\ stream = <<>>
    /\ parsed = <<>>
    /\ file = <<>>

AddBlockInOrder ==
    /\ pc = "container"
    /\ Len(call.added) < MaxAdds
    /\ \E block \in AddPool :
           /\ block_list' = add_block(block_list, block)
           /\ call' = [call EXCEPT !.added = Append(@, block)]
           /\ last_op' = [op |-> "add_block", block |-> block]
    /\ UNCHANGED <<pc, cleaned_blocks, fixes_performed, stream, parsed, file>>

NextAddBlock == AddBlockInOrder

SpecAddBlock == InitAddBlock /\ [][NextAddBlock]_vars

\* C25: starting from a container in preferred order (the empty one
\* included), after any sequence of add_block calls the block list is in
\* preferred order, and the blocks of one type are the ones the container
\* started with followed by the ones added, in the order they were added
C25_AddKeepsOrder ==
    /\ InPreferredOrder(block_list)
    /\ Len(block_list) = Len(call.initial) + Len(call.added)
    /\ \A t \in DefinedTypes :
           get_blocks(block_list, t) = get_blocks(call.initial, t) \o get_blocks(call.added, t)

\* two different blocks of one type added one after the other to a container
\* that holds a block of a later type
C25_Witness ==
    /\ call.initial = <<PAD_a>>
    /\ call.added = <<PIC_b, PIC_a>>
    /\ block_list = <<PIC_b, PIC_a, PAD_a>>
(***************************************************************************)
(* The block headers in the bytes FlacMetaData.build writes                *)
(***************************************************************************)
\* the blocks of a container that can be serialized: size() below 2^24
Serializable(list) == SelectSeq(list, LAMBDA b : block_size(b) < MAX_BLOCK_SIZE)

\* the offset in the stream of the header of the i-th block written
HeaderOffset(written, i) == SumSeq([j \in 1..(i - 1) |-> 4 + block_size(written[j])])

\* the last-block flag of the header at an offset of the stream
LastFlagAt(bytes, offset) == BByte(bytes, offset + 1) \div 128

\* C29: in the bytes build() writes for a container with at least one
\* serializable block, the headers are those of the serializable blocks, one
\* after the other; exactly one of them has the last-block flag set and it is
\* the header of the final block written, so parse() stops after reading
\* precisely the blocks that were written
C29_OneLastFlag ==
    (pc \in {"built", "parsed"} /\ Serializable(block_list) # <<>>) =>
        LET written == Serializable(block_list)
        IN  /\ BLen(stream) = HeaderOffset(written, Len(written) + 1)
            /\ \A i \in 1..Len(written) :
                   /\ BByte(stream, HeaderOffset(written, i) + 1) % 128 = written[i].BLOCK_ID
                   /\ read_be(BTake(BDrop(stream, HeaderOffset(written, i) + 1), 3), 3)
                          = block_size(written[i])
                   /\ LastFlagAt(stream, HeaderOffset(written, i)) = 1 <=> i = Len(written)
            /\ pc = "parsed" =>
                   /\ parsed.ok
                   /\ Len(parsed.val) = Len(written)
                   /\ BLen(parsed.rest) = 0

\* the bytes built for a tag block followed by a block too large to be
\* written, parsed back: the tag block's header carries the flag
C29_Witness ==
    /\ pc = "parsed"
    /\ Len(block_list) = 2
    /\ block_list[1].BLOCK_ID = VORBISCOMMENT_ID
    /\ block_list[2] = PAD_big
    /\ LastFlagAt(stream, 0) = 1
    /\ Len(parsed.val) = 1
(***************************************************************************)
(* FlacAudio.set_metadata.  The tag block's item access (new[key] = values,*)
(* old[key]) is that of audiotools.vorbiscomment.VorbisComment: keys are   *)
(* compared in upper case, a key's values are the texts behind the first   *)
(* "=" of its comment strings.  Strings are sequences of code points.      *)
(***************************************************************************)
REPLAYGAIN_TRACK_GAIN == <<82, 69, 80, 76, 65, 89, 71, 65, 73, 78, 95, 84,
                           82, 65, 67, 75, 95, 71, 65, 73, 78>>
REPLAYGAIN_TRACK_PEAK == <<82, 69, 80, 76, 65, 89, 71, 65, 73, 78, 95, 84,
                           82, 65, 67, 75, 95, 80, 69, 65, 75>>
REPLAYGAIN_ALBUM_GAIN == <<82, 69, 80, 76, 65, 89, 71, 65, 73, 78, 95, 65,
                           76, 66, 85, 77, 95, 71, 65, 73, 78>>
REPLAYGAIN_ALBUM_PEAK == <<82, 69, 80, 76, 65, 89, 71, 65, 73, 78, 95, 65,
                           76, 66, 85, 77, 95, 80, 69, 65, 75>>
REPLAYGAIN_REFERENCE_LOUDNESS == <<82, 69, 80, 76, 65, 89, 71, 65, 73, 78, 95, 82,
                                   69, 70, 69, 82, 69, 78, 67, 69, 95, 76, 79, 85,
                                   68, 78, 69, 83, 83>>
WAVEFORMATEXTENSIBLE_CHANNEL_MASK == <<87, 65, 86, 69, 70, 79, 82, 77, 65, 84, 69, 88,
                                       84, 69, 78, 83, 73, 66, 76, 69, 95, 67, 72, 65,
                                       78, 78, 69, 76, 95, 77, 65, 83, 75>>
CDTOC == <<67, 68, 84, 79, 67>>   \* "CDTOC"

REPLAYGAIN_KEYS ==
    <<REPLAYGAIN_TRACK_GAIN, REPLAYGAIN_TRACK_PEAK, REPLAYGAIN_ALBUM_GAIN,
      REPLAYGAIN_ALBUM_PEAK, REPLAYGAIN_REFERENCE_LOUDNESS>>

\* unicode.upper() on the letters a to z
upper(str) ==
    [i \in 1..Len(str) |-> IF str[i] >= 97 /\ str[i] <= 122 THEN str[i] - 32 ELSE str[i]]

\* a comment string "KEY=value" whose key is the given one
comment_matches(comment, key) ==
    /\ \E i \in 1..Len(comment) : comment[i] = 61
    /\ upper(comment_key(comment)) = upper(key)

\* the text behind the first "=" of a comment string
comment_value(comment) == SubSeq(comment, Len(comment_key(comment)) + 2, Len(comment))

\* vorbis_comment[key]: the values of the key, in order; the empty list
\* stands for the KeyError raised when the key has none
VorbisComment_getitem(vorbis_comment, key) ==
    [i \in 1..Len(SelectSeq(vorbis_comment.comment_strings,
                            LAMBDA c : comment_matches(c, key))) |->
        comment_value(SelectSeq(vorbis_comment.comment_strings,
                                LAMBDA c : comment_matches(c, key))[i])]

\* the loop of vorbis_comment[key] = values: the key's comment strings take
\* the values in turn, those left without a value are removed, and the
\* values left over are appended under the key in upper case
RECURSIVE VorbisComment_setitem_loop(_, _, _, _)
VorbisComment_setitem_loop(comment_strings, key, new_values, new_comment_strings) ==
    IF comment_strings = <<>>
    THEN new_comment_strings
             \o [i \in 1..Len(new_values) |-> upper(key) \o <<61>> \o new_values[i]]
    ELSE IF comment_matches(comment_strings[1], key)
    THEN IF new_values # <<>>
         THEN VorbisComment_setitem_loop(Tail(comment_strings), key, Tail(new_values),
                  Append(new_comment_strings,
                         comment_key(comment_strings[1]) \o <<61>> \o new_values[1]))
         ELSE VorbisComment_setitem_loop(Tail(comment_strings), key, new_values,
                                         new_comment_strings)
    ELSE VorbisComment_setitem_loop(Tail(comment_strings), key, new_values,
                                    Append(new_comment_strings, comment_strings[1]))

\* vorbis_comment[key] = values
VorbisComment_setitem(vorbis_comment, key, values) ==
    Flac_VORBISCOMMENT(
        VorbisComment_setitem_loop(vorbis_comment.comment_strings, key, values, <<>>),
        vorbis_comment.vendor_string)

\* for key in keys: new_vorbiscomment[key] = old_vorbiscomment[key], or []
\* when the old block has no such key
RECURSIVE copy_items(_, _, _)
copy_items(new_vorbiscomment, old_vorbiscomment, keys) ==
    IF keys = <<>> THEN new_vorbiscomment
    ELSE copy_items(VorbisComment_setitem(new_vorbiscomment, keys[1],
                        VorbisComment_getitem(old_vorbiscomment, keys[1])),
                    old_vorbiscomment, Tail(keys))

\* for key in keys: new_vorbiscomment[key] = []
RECURSIVE clear_items(_, _)
clear_items(new_vorbiscomment, keys) ==
    IF keys = <<>> THEN new_vorbiscomment
    ELSE clear_items(VorbisComment_setitem(new_vorbiscomment, keys[1], <<>>), Tail(keys))

\* (self.channels() > 2) or (self.bits_per_sample() > 16), both read from
\* the file's STREAMINFO
wide_format(streaminfo) == streaminfo.channels > 2 \/ streaminfo.bits_per_sample > 16

\* u"0x{:04X}".format(self.channel_mask()) of a file without a tag block:
\* the mask ChannelMask gives for the number of channels
channel_mask_text(channels) ==
    CASE channels = 1 -> <<48, 120, 48, 48, 48, 52>>   \* "0x0004"
      [] channels = 2 -> <<48, 120, 48, 48, 48, 51>>   \* "0x0003"
      [] channels = 3 -> <<48, 120, 48, 48, 48, 55>>   \* "0x0007"
      [] channels = 4 -> <<48, 120, 48, 48, 51, 51>>   \* "0x0033"
      [] channels = 5 -> <<48, 120, 48, 48, 51, 55>>   \* "0x0037"
      [] channels = 6 -> <<48, 120, 48, 48, 51, 70>>   \* "0x003F"
      [] OTHER -> <<48, 120, 48, 48, 48, 48>>   \* "0x0000"

\* the WAVEFORMATEXTENSIBLE_CHANNEL_MASK step when both blocks are present
merge_channel_mask(new_vorbiscomment, old_vorbiscomment, wide) ==
    IF wide /\ VorbisComment_getitem(old_vorbiscomment, WAVEFORMATEXTENSIBLE_CHANNEL_MASK) # <<>>
    THEN VorbisComment_setitem(new_vorbiscomment, WAVEFORMATEXTENSIBLE_CHANNEL_MASK,
             VorbisComment_getitem(old_vorbiscomment, WAVEFORMATEXTENSIBLE_CHANNEL_MASK))
    ELSE IF VorbisComment_getitem(new_vorbiscomment, WAVEFORMATEXTENSIBLE_CHANNEL_MASK) # <<>>
    THEN VorbisComment_setitem(new_vorbiscomment, WAVEFORMATEXTENSIBLE_CHANNEL_MASK, <<>>)
    ELSE new_vorbiscomment

\* a mutant of merge_vorbiscomment: the new tag block is stored as given
merge_vorbiscomment_as_given(new_vorbiscomment, old_vorbiscomment, wide) ==
    new_vorbiscomment

\* both the new and the old metadata have a VORBIS_COMMENT block: the block
\* that takes the old one's place
merge_vorbiscomment(new_vorbiscomment, old_vorbiscomment, wide) ==
    copy_items(
        merge_channel_mask(
            copy_items(Flac_VORBISCOMMENT(new_vorbiscomment.comment_strings,
                                          old_vorbiscomment.vendor_string),
                       old_vorbiscomment, REPLAYGAIN_KEYS),
            old_vorbiscomment, wide),
        old_vorbiscomment, <<CDTOC>>)

\* the new metadata has a VORBIS_COMMENT block and the old has none: the
\* block that is added
fresh_vorbiscomment(new_vorbiscomment, streaminfo) ==
    clear_items(
        IF wide_format(streaminfo)
        THEN VorbisComment_setitem(clear_items(new_vorbiscomment, REPLAYGAIN_KEYS),
                 WAVEFORMATEXTENSIBLE_CHANNEL_MASK,
                 <<channel_mask_text(streaminfo.channels)>>)
        ELSE clear_items(new_vorbiscomment, REPLAYGAIN_KEYS),
        <<CDTOC>>)

\* the VORBIS_COMMENT step of set_metadata
set_vorbiscomment(old_metadata, new_metadata) ==
    IF ~has_block(new_metadata, VORBISCOMMENT_ID) THEN old_metadata
    ELSE IF has_block(old_metadata, VORBISCOMMENT_ID)
    THEN replace_blocks(old_metadata, VORBISCOMMENT_ID,
             <<merge_vorbiscomment(get_block(new_metadata, VORBISCOMMENT_ID),
                                   get_block(old_metadata, VORBISCOMMENT_ID),
                                   wide_format(get_block(old_metadata, STREAMINFO_ID)))>>)
    ELSE add_block(old_metadata,
             fresh_vorbiscomment(get_block(new_metadata, VORBISCOMMENT_ID),
                                 get_block(old_metadata, STREAMINFO_ID)))

\* the metadata set_metadata hands to update_metadata
set_metadata_blocks(old_metadata, new_metadata) ==
    replace_blocks(set_vorbiscomment(old_metadata, new_metadata), PICTURE_ID,
                   get_blocks(new_metadata, PICTURE_ID))

(***************************************************************************)
(* SpecSetMetadata: one call of set_metadata on a file                     *)
(***************************************************************************)
STR_tools == <<80, 121, 116, 104, 111, 110, 32, 65, 117, 100, 105, 111, 32, 84, 111, 111, 108, 115>>
STR_other == <<88>>   \* "X"

\* a 24-bit stereo stream
SI_c == Flac_STREAMINFO(4096, 4096, 14, 1000, 96000, 2, 24, 100, BRun(0, 16))

\* the tag block of a file with ReplayGain values, one under a key in lower
\* case, and a CDTOC
VC_gain ==
    Flac_VORBISCOMMENT(<<<<82, 69, 80, 76, 65, 89, 71, 65, 73, 78, 95, 84,
                           82, 65, 67, 75, 95, 71, 65, 73, 78, 61, 45, 49>>,
                         STR_title,
                         <<114, 101, 112, 108, 97, 121, 103, 97, 105, 110, 95, 97,
                           108, 98, 117, 109, 95, 103, 97, 105, 110, 61, 43, 50>>,
                         <<67, 68, 84, 79, 67, 61, 50, 43, 57, 54>>>>, STR_vendor)   \* "CDTOC=2+96"

\* the tag block of a file with a channel mask and a peak value
VC_mask ==
    Flac_VORBISCOMMENT(<<<<87, 65, 86, 69, 70, 79, 82, 77, 65, 84, 69, 88,
                           84, 69, 78, 83, 73, 66, 76, 69, 95, 67, 72, 65,
                           78, 78, 69, 76, 95, 77, 65, 83, 75, 61, 48, 120,
                           48, 48, 48, 51>>,
                         <<82, 69, 80, 76, 65, 89, 71, 65, 73, 78, 95, 84,
                           82, 65, 67, 75, 95, 80, 69, 65, 75, 61, 48, 46,
                           53>>>>, STR_vendor)

\* a tag block handed to set_metadata: another vendor, other ReplayGain and
\* CDTOC values
VC_new ==
    Flac_VORBISCOMMENT(<<<<84, 61, 98>>,
                         <<82, 69, 80, 76, 65, 89, 71, 65, 73, 78, 95, 84,
                           82, 65, 67, 75, 95, 71, 65, 73, 78, 61, 57>>,
                         <<82, 69, 80, 76, 65, 89, 71, 65, 73, 78, 95, 84,
                           82, 65, 67, 75, 95, 71, 65, 73, 78, 61, 56>>,
                         <<67, 68, 84, 79, 67, 61, 55>>>>, STR_other)   \* "CDTOC=7"

\* a tag block handed to set_metadata that names a channel mask
VC_wide ==
    Flac_VORBISCOMMENT(<<<<87, 65, 86, 69, 70, 79, 82, 77, 65, 84, 69, 88,
                           84, 69, 78, 83, 73, 66, 76, 69, 95, 67, 72, 65,
                           78, 78, 69, 76, 95, 77, 65, 83, 75, 61, 48, 120,
                           48, 48, 48, 52>>>>, STR_other)

SetDiskLists ==
    {<<SI_a, ST_a, VC_gain, APP_a, PAD_b>>,
     <<SI_c, APP_b, PIC_b, CS_a, APP_a>>,
     <<SI_a, PAD_b, APP_a, VC_gain, PIC_a, ST_a, Flac_PADDING(200)>>,
     <<SI_c, VC_mask, APP_b, VC_a, Flac_PADDING(200)>>,
     <<SI_b, PIC_a, Flac_PADDING(200)>>}

SetRegions == {metadata_build(list) : list \in SetDiskLists} \cup {RawRegion}

\* what METADATA_CLASS.converted(metadata) hands to set_metadata: the blocks
\* of another file's FlacMetaData, a tag block and pictures with the
\* PADDING(4096) made for the metadata of another format, and the tag block
\* made for the empty MetaData() of delete_metadata
ConvertedMetadata ==
    {<<>>,
     <<VC_new>>,
     <<SI_b, VC_new, APP_b, PIC_a>>,
     <<PIC_b, PIC_a>>,
     <<VC_wide, PIC_b>>,
     <<Flac_VORBISCOMMENT(<<STR_title>>, STR_tools), PIC_a, PIC_b, Flac_PADDING(4096)>>,
     <<Flac_VORBISCOMMENT(<<>>, STR_tools), Flac_PADDING(4096)>>}

InitSetMetadata ==
    /\ pc = "file"
    /\ \E prefix \in Prefixes, region \in SetRegions, payload \in Payloads :
           /\ file = BCatAll(<<prefix, FILE_ID, region, payload>>)
           /\ call = [op |-> "open", stream_offset |-> BLen(prefix)]
    /\ block_list = <<>>
    /\ cleaned_blocks = <<>>
    /\ fixes_performed = <<>>
    /\ last_op = NoOp
    /\ stream = <<>>
    /\ parsed = <<>>

\* set_metadata(metadata): old_metadata is what get_metadata() reads from the
\* file, its tag block and pictures are replaced, and update_metadata writes it
SetMetadata ==
    /\ pc = "file"
    /\ pc' = "set"
    /\ \E io \in IOOutcomes, new_metadata \in ConvertedMetadata :
           \E old_metadata \in {get_metadata(file, call.stream_offset).val} :
               \E metadata \in {set_metadata_blocks(old_metadata, new_metadata)} :
                   /\ file' = update_metadata(file, call.stream_offset, metadata,
                                              old_metadata, io)
                   /\ call' = [op |-> "set_metadata",
                               stream_offset |-> call.stream_offset,
                               new_metadata |-> new_metadata,
                               old_metadata |-> old_metadata,
                               io |-> io, before |-> file]
    /\ UNCHANGED <<block_list, cleaned_blocks, fixes_performed, last_op, stream, parsed>>

NextSetMetadata == SetMetadata

SpecSetMetadata == InitSetMetadata /\ [][NextSetMetadata]_vars

\* the blocks set_metadata is to leave alone, in container order
OtherBlocks(list) ==
    SelectSeq(list, LAMBDA b : b.BLOCK_ID \in {STREAMINFO_ID, SEEKTABLE_ID,
                                               CUESHEET_ID, APPLICATION_ID})

\* the keys whose values set_metadata takes from the old tag block
KeptKeys == REPLAYGAIN_KEYS \o <<CDTOC>>

\* C30: set_metadata changes only the tag block and the PICTURE blocks of the
\* file's metadata, and PADDING lengths: the STREAMINFO, SEEKTABLE, CUESHEET
\* and APPLICATION blocks read from the file after the call are those read
\* before it, in the same order, and there are as many PADDING blocks; when
\* both the old and the new metadata have a tag block, the tag block stored
\* has the vendor string, the REPLAYGAIN_* values and the CDTOC values of the
\* old one
C30_SetMetadataFrame ==
    (pc = "set" /\ ~call.io.fails) =>
        LET after == get_metadata(file, call.stream_offset)
        IN  /\ after.ok
            /\ OtherBlocks(after.val) = OtherBlocks(call.old_metadata)
            /\ Count(after.val, PADDING_ID) = Count(call.old_metadata, PADDING_ID)
            /\ (/\ has_block(call.old_metadata, VORBISCOMMENT_ID)
                /\ has_block(call.new_metadata, VORBISCOMMENT_ID)) =>
                   /\ Count(after.val, VORBISCOMMENT_ID) = 1
                   /\ get_block(after.val, VORBISCOMMENT_ID).vendor_string
                          = get_block(call.old_metadata, VORBISCOMMENT_ID).vendor_string
                   /\ \A i \in 1..Len(KeptKeys) :
                          VorbisComment_getitem(get_block(after.val, VORBISCOMMENT_ID),
                                                KeptKeys[i])
                              = VorbisComment_getitem(
                                    get_block(call.old_metadata, VORBISCOMMENT_ID),
                                    KeptKeys[i])

\* the blocks of another file's metadata set on a file whose blocks are not
\* in preferred order and whose tag block has ReplayGain values and a CDTOC
C30_Witness ==
    /\ pc = "set"
    /\ ~call.io.fails
    /\ call.new_metadata = <<SI_b, VC_new, APP_b, PIC_a>>
    /\ call.old_metadata = <<SI_a, PAD_b, APP_a, VC_gain, PIC_a, ST_a, Flac_PADDING(200)>>
    /\ file # call.before
    /\ OtherBlocks(get_metadata(file, call.stream_offset).val) = <<SI_a, APP_a, ST_a>>
    /\ VorbisComment_getitem(get_block(get_metadata(file, call.stream_offset).val,
                                       VORBISCOMMENT_ID), REPLAYGAIN_TRACK_GAIN)
           = VorbisComment_getitem(VC_gain, REPLAYGAIN_TRACK_GAIN)
    /\ VorbisComment_getitem(VC_gain, REPLAYGAIN_TRACK_GAIN) # <<>>
====
